---- MODULE Spec2Model ----
(***************************************************************************)
(* A model of the PDF object layer of pdfparser: the xref loaders of the   *)
(* older Pdf document (pdf/pdf.go) and of the newer Parser (pdf/parser.go),*)
(* xref validation and repair, on-demand object reads, reference           *)
(* resolution, the object parser over bytes and the crypt filters.         *)
(***************************************************************************)
EXTENDS Integers, Sequences, FiniteSets, TLC

(***************************************************************************)
(* Bounds of the model.                                                    *)
(***************************************************************************)
MaxObj == 2
MaxGen == 1

ObjNums == 1..MaxObj
Gens == 0..MaxGen

(***************************************************************************)
(* The file, seen at the granularity the xref loaders read it: what the    *)
(* parser finds when it seeks to an offset.  Offsets are in file order.    *)
(* Offsets 1 and 2 hold xref sections, 3 and 4 indirect objects, 5 is the  *)
(* place of the startxref keyword at the end of the file, any larger       *)
(* offset is past the end of the file.                                     *)
(***************************************************************************)
SecOffsets == {1, 2}
ObjOffsets == {3, 4}
EofOff == Cardinality(SecOffsets \cup ObjOffsets) + 1
Offsets == 1..EofOff
\* the offset getStartXrefOffset returns with its error; also a missing Prev or Size
NoOff == 0
NoVal == NoOff

\* an xref entry as written in a section: object number, offset, generation, kind
SecEntry(num, off, gen, type) == [num |-> num, off |-> off, gen |-> gen, type |-> type]

Item(kind, n, g, entries, size, prev, val, fail) ==
    [kind |-> kind, n |-> n, g |-> g, entries |-> entries, size |-> size,
     prev |-> prev, val |-> val, fail |-> fail]

\* bytes that are neither an xref section nor an object header
Val(t) == [t |-> t, n |-> 0]
Null == Val("null")

Junk == Item("junk", 0, 0, <<>>, NoVal, NoVal, Null, "none")
\* the keyword startxref followed by the offset of the newest section and %%EOF
StartXrefItem(target) == Item("startxref", 0, 0, <<>>, NoVal, target, Null, "none")
\* n g obj <value> endobj ; the value is a string or a reference m 0 R
ObjItem(n, g, val) == Item("obj", n, g, <<>>, NoVal, NoVal, val, "none")
\* xref <subsections> trailer << /Size size /Prev prev >>
TableItem(entries, size, prev, fail) == Item("table", 0, 0, entries, size, prev, Null, fail)
\* n g obj << /Size size /Prev prev /W [..] >> stream <records> endstream
XStreamItem(n, g, entries, size, prev, fail) == Item("xstream", n, g, entries, size, prev, Val("dict"), fail)

RefVal(m) == [t |-> "ref", n |-> m]
IsRef(v) == v.t = "ref"

ItemAt(f, o) == IF o \in Offsets THEN f.at[o] ELSE Junk

File(at, sx) == [at |-> at, startxref |-> sx]

(***************************************************************************)
(* The bounded set of files.  FilesChain varies the two sections (kind,    *)
(* entries, Size, Prev) over well-formed objects; FilesObjects varies the  *)
(* objects and the entries of one table; FilesBroken holds sections whose  *)
(* parse fails part-way.                                                   *)
(***************************************************************************)
\* the sections of the chain list at most one object
ChainEntries(s, nums) ==
    {<<>>} \cup {<<SecEntry(num, s + 2, gen, "inuse")>> : num \in nums, gen \in Gens}

ChainSections(s, nums, prevs) ==
    {TableItem(es, size, prev, "none") :
        es \in ChainEntries(s, nums), size \in {NoVal, s}, prev \in prevs}
    \cup
    {XStreamItem(s, 0, es, size, prev, "none") :
        es \in ChainEntries(s, nums), size \in {NoVal, s}, prev \in prevs}

FilesChain ==
    {File([o \in Offsets |->
             CASE o = 1 -> s1
               [] o = 2 -> s2
               [] o = 3 -> ObjItem(1, 0, Val("str"))
               [] o = 4 -> ObjItem(2, 0, Val("str"))
               [] OTHER -> IF sx = NoOff THEN Junk ELSE StartXrefItem(sx)], sx) :
        s1 \in ChainSections(1, ObjNums, {NoVal, 1, 2, 3}),
        s2 \in ChainSections(2, {1}, {NoVal, 1, 2}),
        sx \in {NoOff, 1, 2, 4}}

ObjectEntries(num) ==
    {SecEntry(num, off, 0, "inuse") : off \in {3, 4, 6}} \cup {SecEntry(num, 3, MaxGen, "free")}

ObjectTables ==
    {TableItem(es, 1, NoVal, "none") :
        es \in {<<>>} \cup {<<e1>> : e1 \in ObjectEntries(1)}
               \cup {<<e1, e2>> : e1 \in ObjectEntries(1), e2 \in ObjectEntries(2)}}

\* what lies at offset 3: any object header, or no object
ObjectItems ==
    {Junk} \cup {ObjItem(n, g, v) : n \in ObjNums, g \in Gens,
                                    v \in {Val("str"), RefVal(2), RefVal(MaxObj + 1)}}
\* what lies at offset 4: object 2 with any value, or a second header of object 1
LastItems ==
    {ObjItem(2, 0, v) : v \in {Val("str")} \cup {RefVal(m) : m \in 1..(MaxObj + 1)}}
    \cup {ObjItem(1, 0, Val("str"))}

FilesObjects ==
    {File([o \in Offsets |->
             CASE o = 1 -> t
               [] o = 2 -> Junk
               [] o = 3 -> o3
               [] o = 4 -> o4
               [] OTHER -> IF sx = NoOff THEN Junk ELSE StartXrefItem(sx)], sx) :
        t \in ObjectTables, o3 \in ObjectItems, o4 \in LastItems, sx \in {NoOff, 1}}

BrokenSections ==
    {TableItem(<<SecEntry(1, 3, g, "inuse")>>, 1, 2, fail) : g \in Gens, fail \in {"trailer", "data"}}
    \cup
    {XStreamItem(1, 0, <<SecEntry(1, 3, g, "inuse")>>, 1, 2, fail) :
        g \in Gens, fail \in {"trailer", "w", "data"}}

FilesBroken ==
    {File([o \in Offsets |->
             CASE o = 1 -> s1
               [] o = 2 -> TableItem(<<SecEntry(2, 4, 0, "inuse")>>, 2, NoVal, "none")
               [] o = 3 -> ObjItem(1, 0, Val("str"))
               [] o = 4 -> ObjItem(2, 0, Val("str"))
               [] OTHER -> StartXrefItem(sx)], sx) :
        s1 \in BrokenSections, sx \in {1, 2}}

Files == FilesChain \cup FilesObjects \cup FilesBroken

(***************************************************************************)
(* The xref map and the trailer.                                           *)
(***************************************************************************)
XKeys == 0..(MaxObj + 1)
TKeys == {"Size", "Prev"}

\* NewXrefEntry; is_encrypted defaults to true, is_embedded_file to false
NewXrefEntry(offset, generation, type) ==
    [off |-> offset, gen |-> generation, type |-> type, enc |-> TRUE, emb |-> FALSE]
\* map[int]*XrefEntry: the empty map, a lookup's ok, an assignment
EmptyXref == [k \in {} |-> NewXrefEntry(0, 0, "free")]
Has(x, k) == k \in DOMAIN x
Put(x, k, e) == [j \in DOMAIN x \cup {k} |-> IF j = k THEN e ELSE x[j]]
EmptyTrailer == [k \in TKeys |-> NoVal]
\* xref_entry.IsEmbeddedFile = true, when the map has the entry
MarkEmbeddedFile(x, number) ==
    IF Has(x, number) THEN [x EXCEPT ![number].emb = TRUE] ELSE x
\* the xref map after Pdf.ReadObject or Parser.GetObject of the object: the
\* entry is looked up and read, nothing is assigned
XrefAfterRead(x, number) == x

\* the trailer dictionary a section carries
SecTrailer(item) == [k \in TKeys |-> IF k = "Size" THEN item.size ELSE item.prev]

VARIABLES file, Xref, trailer, xref_offsets, pc, cur, stack, todo, parses, repaired,
          object, rcur, rvisited, rresult,
          data, offset, frames, crypt, outcome, buffered, security_handler

xvars == <<file, Xref, trailer, xref_offsets, pc, cur, stack, todo, parses, repaired>>
ovars == <<object, rcur, rvisited, rresult>>
bvars == <<data, offset, frames, crypt, outcome, buffered, security_handler>>
vars == <<xvars, ovars, bvars>>

(***************************************************************************)
(* Pdf (pdf/pdf.go)                                                        *)
(***************************************************************************)

\* an object header `n g obj` starts at offset o (start_obj_regexp matches there)
HeaderAt(f, o) == ItemAt(f, o).kind \in {"obj", "xstream"}

RECURSIVE RepairFrom(_, _, _)
RepairFrom(f, o, x) ==
    IF o > EofOff THEN x
    ELSE RepairFrom(f, o + 1,
                    IF HeaderAt(f, o)
                    THEN Put(x, f.at[o].n, NewXrefEntry(o, f.at[o].g, "inuse"))
                    ELSE x)

RepairKeepingEntries(f) == RepairFrom(f, 1, Xref)

\* RepairXref: clear the map, then one InUse entry per header found, in file order
RepairXref(f) == RepairFrom(f, 1, EmptyXref)

\* the generation rule of readXrefTable and readXrefStream
PdfAddEntry(x, e) ==
    IF ~Has(x, e.num) \/ e.gen > x[e.num].gen
    THEN Put(x, e.num, NewXrefEntry(e.off, e.gen, e.type))
    ELSE x

RECURSIVE PdfAddEntries(_, _)
PdfAddEntries(x, es) ==
    IF es = <<>> THEN x ELSE PdfAddEntries(PdfAddEntry(x, Head(es)), Tail(es))

\* merge trailer: a key already present is kept
PdfMergeTrailer(t, new) == [k \in TKeys |-> IF t[k] # NoVal THEN t[k] ELSE new[k]]

\* IsXrefValid: every InUse entry points at `int int obj`
IsXrefValid(f, x) == \A k \in DOMAIN x : x[k].type = "inuse" => HeaderAt(f, x[k].off)

NeverLoaded(offsets, o) == FALSE

\* the lookup in the map of loaded xref offsets that opens loadXref and LoadXref
Loaded(offsets, o) == o \in offsets

\* what readXrefTable / readXrefStream make of the section at the current offset:
\* the map and trailer they leave, whether they return an error, the Prev to load next
PdfReadSection(x, t, item) ==
    LET own == SecTrailer(item)
        bad(x1, t1) == [x |-> x1, t |-> t1, err |-> TRUE, next |-> NoOff]
    IN CASE item.kind = "table" ->
              LET x1 == PdfAddEntries(x, item.entries)
              IN IF item.fail # "none" THEN bad(x1, t)
                 ELSE [x |-> x1, t |-> PdfMergeTrailer(t, own), err |-> FALSE, next |-> item.prev]
         [] item.kind = "xstream" ->
              LET t1 == PdfMergeTrailer(t, own)
                  x1 == PdfAddEntries(x, item.entries)
              IN IF item.fail = "trailer" THEN bad(x, t)
                 ELSE IF item.fail = "w" THEN bad(x, t1)
                 ELSE IF item.fail = "data" THEN bad(x1, t1)
                 ELSE [x |-> x1, t |-> t1, err |-> FALSE, next |-> item.prev]
         [] OTHER -> bad(x, t)

NullObject(number) == [Number |-> number, Generation |-> 0, Value |-> Null, Stream |-> "nil"]

\* the value and stream the object parser reads after the header at offset o
ValueAt(f, o) ==
    LET item == ItemAt(f, o)
    IN CASE item.kind \in {"obj", "xstream"} -> item.val
         [] item.kind = "table" -> Val("num")
         [] OTHER -> Null
StreamAt(f, o) == IF ItemAt(f, o).kind = "xstream" THEN "data" ELSE "nil"

ReadObjectOfAnyEntry(f, x, number) ==
    IF ~Has(x, number) THEN NullObject(number)
    ELSE [Number |-> number, Generation |-> x[number].gen,
          Value |-> ValueAt(f, x[number].off), Stream |-> StreamAt(f, x[number].off)]

\* Pdf.ReadObject
PdfReadObject(f, x, number) ==
    IF ~Has(x, number) THEN NullObject(number)
    ELSE IF x[number].type # "inuse"
         THEN [NullObject(number) EXCEPT !.Generation = x[number].gen]
         ELSE [Number |-> number, Generation |-> x[number].gen,
               Value |-> ValueAt(f, x[number].off), Stream |-> StreamAt(f, x[number].off)]

NoParses == [o \in Offsets |-> 0]

\* the security handler NewParser installs
defaultSecurityHandler == [v |-> 0, r |-> 0, password |-> <<>>]

\* the variables of the byte-level readers and of decryption, while unused
Idle ==
    /\ data = <<>>
    /\ offset = 0
    /\ frames = <<>>
    /\ crypt = "none"
    /\ outcome = "none"
    /\ buffered = 0
    /\ security_handler = defaultSecurityHandler

PdfInit ==
    /\ file \in Files
    /\ Xref = EmptyXref
    /\ trailer = EmptyTrailer
    /\ xref_offsets = {}
    /\ pc = "Open"
    /\ cur = NoOff
    /\ stack = <<>>
    /\ todo = <<>>
    /\ parses = NoParses
    /\ repaired = FALSE
    /\ object = NullObject(0)
    /\ rcur = 0
    /\ rvisited = {}
    /\ rresult = Null
    /\ Idle

\* Open, up to the call of loadXref
PdfOpen ==
    /\ pc = "Open"
    /\ IF file.startxref = NoOff
       THEN /\ Xref' = RepairXref(file)
            /\ repaired' = TRUE
            /\ pc' = "opened"
            /\ cur' = cur
       ELSE /\ cur' = file.startxref
            /\ pc' = "loadXref"
            /\ UNCHANGED <<Xref, repaired>>
    /\ UNCHANGED <<file, trailer, xref_offsets, stack, todo, parses, ovars, bvars>>

\* loadXref(cur); its tail call loadXref(Prev) is the next step
PdfLoadXref ==
    /\ pc = "loadXref"
    /\ IF Loaded(xref_offsets, cur)
       THEN /\ pc' = "IsXrefValid"
            /\ UNCHANGED <<Xref, trailer, xref_offsets, cur, parses, repaired>>
       ELSE LET r == PdfReadSection(Xref, trailer, ItemAt(file, cur))
            IN /\ xref_offsets' = xref_offsets \cup {cur}
               /\ parses' = [parses EXCEPT ![cur] = @ + 1]
               /\ trailer' = r.t
               /\ IF r.err
                  THEN /\ Xref' = RepairXref(file)
                       /\ repaired' = TRUE
                       /\ pc' = "opened"
                       /\ cur' = cur
                  ELSE /\ Xref' = r.x
                       /\ repaired' = repaired
                       /\ IF r.next # NoOff
                          THEN cur' = r.next /\ pc' = "loadXref"
                          ELSE cur' = cur /\ pc' = "IsXrefValid"
    /\ UNCHANGED <<file, stack, todo, ovars, bvars>>

\* Open, from the call of IsXrefValid
PdfValidate ==
    /\ pc = "IsXrefValid"
    /\ IF IsXrefValid(file, Xref)
       THEN UNCHANGED <<Xref, repaired>>
       ELSE Xref' = RepairXref(file) /\ repaired' = TRUE
    /\ pc' = "opened"
    /\ UNCHANGED <<file, trailer, xref_offsets, cur, stack, todo, parses, ovars, bvars>>

\* pdf.ReadObject(number) on the opened document
PdfGetObject ==
    /\ pc = "opened"
    /\ \E number \in XKeys :
          /\ object' = PdfReadObject(file, Xref, number)
          /\ Xref' = XrefAfterRead(Xref, number)
    /\ UNCHANGED <<file, trailer, xref_offsets, pc, cur, stack, todo, parses, repaired,
                   rcur, rvisited, rresult, bvars>>

PdfNext == PdfOpen \/ PdfLoadXref \/ PdfValidate

SpecPdf == PdfInit /\ [][PdfNext]_vars

\* ------------------------------------------------------------------
\* Parser.Load
\* ------------------------------------------------------------------

\* the matches of xref_regexp in file order: every xref table and the tail of
\* the keyword startxref
RECURSIVE XrefMatchesFrom(_, _)
XrefMatchesFrom(f, o) ==
    IF o > EofOff THEN <<>>
    ELSE (IF f.at[o].kind \in {"table", "startxref"} THEN <<o>> ELSE <<>>)
         \o XrefMatchesFrom(f, o + 1)
FindXrefOffsets(f) == XrefMatchesFrom(f, 1)

FindObjects(f) == RepairFrom(f, 1, EmptyXref)

\* the merge loops of LoadXrefTable and LoadXrefStream
ParserMergeTrailer(t, new) == [k \in TKeys |-> IF new[k] # NoVal THEN new[k] ELSE t[k]]
ParserAddEntry(x, e) == Put(x, e.num, NewXrefEntry(e.off, e.gen, e.type))
RECURSIVE ParserAddEntries(_, _)
ParserAddEntries(x, es) ==
    IF es = <<>> THEN x ELSE ParserAddEntries(ParserAddEntry(x, Head(es)), Tail(es))

\* Parser.GetObject
ParserReadObject(f, x, number) ==
    IF Has(x, number) /\ x[number].type = "inuse"
    THEN [Number |-> number, Generation |-> x[number].gen,
          Value |-> ValueAt(f, x[number].off), Stream |-> StreamAt(f, x[number].off)]
    ELSE NullObject(number)

\* the repair loop of Load over the objects FindObjects found
RepairEntry(f, x, objects, k) ==
    IF ~Has(objects, k) THEN x[k]
    ELSE IF ~Has(x, k) THEN objects[k]
    ELSE IF HeaderAt(f, x[k].off) /\ ItemAt(f, x[k].off).n = k THEN x[k]
    ELSE [x[k] EXCEPT !.off = objects[k].off]
ParserRepair(f, x) ==
    [k \in DOMAIN x \cup DOMAIN FindObjects(f) |-> RepairEntry(f, x, FindObjects(f), k)]

ParserInit ==
    /\ file \in Files
    /\ Xref = EmptyXref
    /\ trailer = EmptyTrailer
    /\ xref_offsets = {}
    /\ pc = "Load"
    /\ cur = NoOff
    /\ stack = <<>>
    /\ todo = <<>>
    /\ parses = NoParses
    /\ repaired = FALSE
    /\ object = NullObject(0)
    /\ rcur = 0
    /\ rvisited = {}
    /\ rresult = Null
    /\ Idle

\* Load, up to the loop over the start offsets
ParserLoad ==
    /\ pc = "Load"
    /\ todo' = FindXrefOffsets(file) \o
               (IF file.startxref # NoOff THEN <<file.startxref>> ELSE <<>>)
    /\ pc' = "next"
    /\ UNCHANGED <<file, Xref, trailer, xref_offsets, cur, stack, parses, repaired, ovars, bvars>>

\* one iteration of the loop: LoadXref(xref_offsets[i], fresh map); after the
\* last one FindObjects and the repair loop
ParserNextOffset ==
    /\ pc = "next"
    /\ IF todo = <<>>
       THEN /\ Xref' = ParserRepair(file, Xref)
            /\ pc' = "loaded"
            /\ UNCHANGED <<todo, cur, xref_offsets>>
       ELSE /\ cur' = Head(todo)
            /\ todo' = Tail(todo)
            /\ xref_offsets' = {}
            /\ pc' = "LoadXref"
            /\ Xref' = Xref
    /\ UNCHANGED <<file, trailer, stack, parses, repaired, ovars, bvars>>

\* LoadXref(cur, offsets) up to its recursive call for Prev (the section is
\* kept on the stack until that call returns) or up to its return
ParserLoadXref ==
    /\ pc = "LoadXref"
    /\ IF Loaded(xref_offsets, cur)
       THEN /\ pc' = "return"
            /\ UNCHANGED <<Xref, xref_offsets, cur, stack, parses>>
       ELSE LET item == ItemAt(file, cur)
                isHeader == item.kind \in {"obj", "xstream"}
                enters == \/ item.kind = "table" /\ item.fail = "none"
                          \/ item.kind = "xstream" /\ item.fail # "trailer"
            IN /\ xref_offsets' = xref_offsets \cup {cur}
               /\ parses' = [parses EXCEPT ![cur] = @ + 1]
               /\ Xref' = IF isHeader
                          THEN Put(Xref, item.n,
                                   [NewXrefEntry(cur, item.g, "inuse") EXCEPT !.enc = FALSE])
                          ELSE Xref
               /\ stack' = IF enters THEN <<item>> \o stack ELSE stack
               /\ IF enters /\ item.prev # NoVal
                  THEN cur' = item.prev /\ pc' = "LoadXref"
                  ELSE cur' = cur /\ pc' = "return"
    /\ UNCHANGED <<file, trailer, todo, repaired, ovars, bvars>>

\* the rest of LoadXrefTable / LoadXrefStream after the call for Prev returned
ParserReturn ==
    /\ pc = "return"
    /\ IF stack = <<>>
       THEN /\ pc' = "next"
            /\ UNCHANGED <<Xref, trailer, stack>>
       ELSE LET item == Head(stack)
            IN /\ stack' = Tail(stack)
               /\ trailer' = ParserMergeTrailer(trailer, SecTrailer(item))
               /\ Xref' = IF item.kind = "xstream" /\ item.fail = "w" THEN Xref
                          ELSE ParserAddEntries(Xref, item.entries)
               /\ pc' = "return"
    /\ UNCHANGED <<file, xref_offsets, cur, todo, parses, repaired, ovars, bvars>>

\* parser.GetObject(number) on the loaded document
ParserGetObject ==
    /\ pc = "loaded"
    /\ \E number \in XKeys :
          /\ object' = ParserReadObject(file, Xref, number)
          /\ Xref' = XrefAfterRead(Xref, number)
    /\ UNCHANGED <<file, trailer, xref_offsets, pc, cur, stack, todo, parses, repaired,
                   rcur, rvisited, rresult, bvars>>

ParserNext == ParserLoad \/ ParserNextOffset \/ ParserLoadXref \/ ParserReturn

SpecParser == ParserInit /\ [][ParserNext]_vars

\* ------------------------------------------------------------------
\* Reference resolution (spec.md 4.7; Reference.Resolve is not part of src/)
\* ------------------------------------------------------------------

NeverRevisits(visited, n) == FALSE

\* the reference was already visited in this call chain
Revisits(visited, n) == n \in visited

\* a caller resolves the reference `m 0 R` with a fresh visited set
ResolveCall(ready, resolving) ==
    /\ pc = ready
    /\ \E m \in 1..(MaxObj + 1) : rcur' = m
    /\ rvisited' = {}
    /\ rresult' = Null
    /\ pc' = resolving
    /\ UNCHANGED <<file, Xref, trailer, xref_offsets, cur, stack, todo, parses, repaired,
                   object, bvars>>

\* one dereference: read the object the reference names; a reference value is
\* followed, a revisited reference yields Null
ResolveStep(ready, resolving, read) ==
    /\ pc = resolving
    /\ IF Revisits(rvisited, rcur)
       THEN /\ rresult' = Null
            /\ pc' = ready
            /\ UNCHANGED <<rcur, rvisited, object, Xref>>
       ELSE /\ object' = read
            /\ Xref' = XrefAfterRead(Xref, rcur)
            /\ rvisited' = rvisited \cup {rcur}
            /\ IF IsRef(object'.Value)
               THEN /\ rcur' = object'.Value.n
                    /\ UNCHANGED <<rresult, pc>>
               ELSE /\ rresult' = object'.Value
                    /\ pc' = ready
                    /\ rcur' = rcur
    /\ UNCHANGED <<file, trailer, xref_offsets, cur, stack, todo, parses, repaired, bvars>>

PdfResolveCall == ResolveCall("opened", "resolve")
PdfResolveStep == ResolveStep("opened", "resolve", PdfReadObject(file, Xref, rcur))
ParserResolveCall == ResolveCall("loaded", "Resolve")
ParserResolveStep == ResolveStep("loaded", "Resolve", ParserReadObject(file, Xref, rcur))

\* documents of the object family, opened by Pdf or loaded by Parser, whose
\* references are then resolved
ResolveInit ==
    /\ PdfInit \/ ParserInit
    /\ file \in FilesObjects

ResolveNext ==
    \/ PdfNext \/ PdfGetObject \/ PdfResolveCall \/ PdfResolveStep
    \/ ParserNext \/ ParserGetObject \/ ParserResolveCall \/ ParserResolveStep

SpecResolve == ResolveInit /\ [][ResolveNext]_vars

\* Pdf.Open and Parser.Load side by side on every file of the families
LoadInit == PdfInit \/ ParserInit
LoadNext == PdfNext \/ ParserNext
SpecLoad == LoadInit /\ [][LoadNext]_vars

(***************************************************************************)
(* The object parser of Parser at the level of bytes (pdf/parser.go).      *)
(* data is the input, offset the number of bytes consumed, frames the      *)
(* ReadArray / ReadDictionary calls that are open, innermost first.        *)
(* The inputs hold no `#` and no octal digit after a backslash, so name    *)
(* codes and octal character codes are left out of the readers below; of a *)
(* number the digits after the dot are consumed and their value left out.  *)
(***************************************************************************)
MaxLen == 4

whitespace == {"NUL", "\t", "\n", "\f", "\r", " "}
delimiters == {"(", ")", "<", ">", "[", "]", "/", "%"}
Digits == <<"0", "1", "2", "3", "4", "5", "6", "7", "8", "9">>
IsDigit(b) == \E i \in DOMAIN Digits : Digits[i] = b
DigitValue(b) == (CHOOSE i \in DOMAIN Digits : Digits[i] = b) - 1
\* the digit loop of readInt64: value * 10 + digit
RECURSIVE ReadDigits(_, _, _)
ReadDigits(d, o, value) ==
    IF o < Len(d) /\ IsDigit(d[o + 1])
    THEN ReadDigits(d, o + 1, value * 10 + DigitValue(d[o + 1]))
    ELSE [value |-> value, off |-> o]

ObjectBytes == {"[", "]", "<", ">", "(", ")", "/", "a", "1", " ", "%", "\n"}
ObjectInputs == UNION {[1..k -> ObjectBytes] : k \in 0..MaxLen}

\* the byte ReadByte returns at offset o, "EOF" for its error
ByteAt(d, o) == IF o < Len(d) THEN d[o + 1] ELSE "EOF"

RECURSIVE consumeComment(_, _)
consumeComment(d, o) ==
    IF o >= Len(d) THEN o
    ELSE IF d[o + 1] = "\n" THEN o + 1
    ELSE IF d[o + 1] = "\r" THEN (IF ByteAt(d, o + 1) = "\n" THEN o + 2 ELSE o + 1)
    ELSE consumeComment(d, o + 1)

RECURSIVE consumeWhitespace(_, _)
consumeWhitespace(d, o) ==
    IF o >= Len(d) THEN o
    ELSE IF d[o + 1] = "%" THEN consumeWhitespace(d, consumeComment(d, o + 1))
    ELSE IF d[o + 1] \in whitespace THEN consumeWhitespace(d, o + 1)
    ELSE o

\* the loop of ReadKeyword and of ReadName: up to whitespace, a delimiter or EOF
RECURSIVE RegularEnd(_, _)
RegularEnd(d, o) ==
    IF o >= Len(d) \/ d[o + 1] \in whitespace \cup delimiters THEN o
    ELSE RegularEnd(d, o + 1)

ReadKeyword(d, o) == RegularEnd(d, consumeWhitespace(d, o))
\* called at a `/`
ReadName(d, o) == RegularEnd(d, consumeWhitespace(d, o) + 1)

\* the byte an escape sequence of ReadString stands for; BS is the backspace
EscapeValue(b) ==
    CASE b = "n" -> "\n"
      [] b = "r" -> "\r"
      [] b = "t" -> "\t"
      [] b = "b" -> "BS"
      [] b = "f" -> "\f"
      [] OTHER -> b

\* a loop that takes the backslash for an ordinary byte, so that an escaped
\* parenthesis is counted
RECURSIVE StringLoopWithoutEscapes(_, _, _, _)
StringLoopWithoutEscapes(d, o, open_parens, s) ==
    LET b == ByteAt(d, o)
        parens == IF b = "(" THEN open_parens + 1
                  ELSE IF b = ")" THEN open_parens - 1 ELSE open_parens
    IN IF b = "EOF" THEN [bytes |-> s, off |-> o]
       ELSE IF parens = 0 THEN [bytes |-> s, off |-> o + 1]
       ELSE StringLoopWithoutEscapes(d, o + 1, parens, Append(s, b))

\* the loop of ReadString after the opening paren: the bytes written to the
\* string builder and the offset left
RECURSIVE StringLoop(_, _, _, _)
StringLoop(d, o, open_parens, s) ==
    LET b == ByteAt(d, o)
        escaped == ByteAt(d, o + 1)
        parens == IF b = "(" THEN open_parens + 1
                  ELSE IF b = ")" THEN open_parens - 1 ELSE open_parens
    IN IF b = "EOF" THEN [bytes |-> s, off |-> o]
       ELSE IF b = "\\"
       THEN IF escaped = "EOF" THEN [bytes |-> Append(s, "\\"), off |-> o + 1]
            ELSE IF escaped = "\n" THEN StringLoop(d, o + 2, open_parens, s)
            ELSE IF escaped = "\r"
            THEN StringLoop(d, (IF ByteAt(d, o + 2) = "\n" THEN o + 3 ELSE o + 2),
                            open_parens, s)
            ELSE StringLoop(d, o + 2, open_parens, Append(s, EscapeValue(escaped)))
       ELSE IF parens = 0 THEN [bytes |-> s, off |-> o + 1]
       ELSE StringLoop(d, o + 1, parens, Append(s, b))

\* called at a `(`: the string and the offset left
ReadStringBytes(d, o) == StringLoop(d, consumeWhitespace(d, o) + 1, 1, <<>>)
ReadString(d, o) == ReadStringBytes(d, o).off

\* the loop of ReadHexString after the `<`
RECURSIVE HexEnd(_, _)
HexEnd(d, o) ==
    LET p == consumeWhitespace(d, o)
    IN IF p >= Len(d) THEN p
       ELSE IF d[p + 1] = ">" THEN p + 1
       ELSE HexEnd(d, p + 1)
ReadHexString(d, o) == HexEnd(d, consumeWhitespace(d, o) + 1)

\* a run of digits from offset o: the offset after it
RECURSIVE DigitsEnd(_, _)
DigitsEnd(d, o) == IF o < Len(d) /\ IsDigit(d[o + 1]) THEN DigitsEnd(d, o + 1) ELSE o

\* ReadNumber, called at a digit, a sign or a dot: the offset it leaves, the
\* value of the digits of its integer part, whether it saw a minus sign and
\* whether it saw a dot
ReadNumber(d, o) ==
    LET p == consumeWhitespace(d, o)
        b == ByteAt(d, p)
        from == IF IsDigit(b) THEN p ELSE p + 1
        int_end == IF b = "." THEN from ELSE DigitsEnd(d, from)
        isReal == b = "." \/ ByteAt(d, int_end) = "."
    IN [off |-> IF isReal THEN DigitsEnd(d, (IF b = "." THEN from ELSE int_end + 1))
                ELSE int_end,
        int |-> IF b = "." THEN 0 ELSE ReadDigits(d, from, 0).value,
        isNegative |-> b = "-",
        isReal |-> isReal]

\* Parser.ReadInt: the value, whether it returns an error, the offset it leaves
ReadInt(d, o) ==
    LET p == consumeWhitespace(d, o)
    IN IF ~IsDigit(ByteAt(d, p))
       THEN [value |-> 0, err |-> TRUE, off |-> p]
       ELSE LET r == ReadDigits(d, p, 0)
            IN [value |-> r.value, err |-> FALSE, off |-> r.off]

\* the bytes ReadKeyword builds its keyword from
KeywordBytes(d, o) == SubSeq(d, consumeWhitespace(d, o) + 1, ReadKeyword(d, o))

NoValue == [t |-> "none"]
Token(kind, err, off) == [kind |-> kind, err |-> err, off |-> off, val |-> NoValue]
NumberValue(num) == [t |-> "number", int |-> num.int, isNegative |-> num.isNegative,
                     isReal |-> num.isReal]
\* NewReference(parser, int(number), generation)
ReferenceValue(num, generation) ==
    [t |-> "reference", n |-> IF num.isNegative THEN 0 - num.int ELSE num.int,
     g |-> generation]

\* a ReadObject that does not seek back when no reference follows the number
NumberWithoutSeek(d, o) ==
    LET number == ReadNumber(d, o)
        generation == ReadInt(d, number.off)
    IN [Token("number", "nil", ReadKeyword(d, generation.off))
           EXCEPT !.val = NumberValue(number)]

\* the numbers and references of ReadObject: CurrentOffset after the number,
\* ReadInt and ReadKeyword, and the Seek back when no reference follows
NumberOrReference(d, o) ==
    LET number == ReadNumber(d, o)
        generation == ReadInt(d, number.off)
    IN IF generation.err \/ KeywordBytes(d, generation.off) # <<"R">>
       THEN [Token("number", "nil", number.off) EXCEPT !.val = NumberValue(number)]
       ELSE [Token("reference", "nil", ReadKeyword(d, generation.off))
                EXCEPT !.val = ReferenceValue(number, generation.value)]

\* ReadObject up to a call of ReadArray or ReadDictionary: what it returns and
\* the offset it leaves; kind "[" or "<<" stands for the call that opens
ReadToken(d, o) ==
    LET p == consumeWhitespace(d, o)
        b == ByteAt(d, p)
        b2 == ByteAt(d, p + 1)
    IN CASE b = "EOF" -> Token("null", "ErrorRead", p)
         [] b = "/" -> Token("name", "nil", ReadName(d, o))
         [] b = "[" -> Token("[", "nil", p + 1)
         [] b = "]" -> Token("null", "EndOfArray", p + 1)
         [] b = "(" -> Token("string", "nil", ReadString(d, o))
         [] b = "<" /\ b2 = "<" -> Token("<<", "nil", p + 2)
         [] b = ">" /\ b2 = ">" -> Token("null", "EndOfDictionary", p + 2)
         [] b = "<" /\ b2 # "<" -> Token("string", "nil", ReadHexString(d, o))
         [] IsDigit(b) \/ b \in {"+", "-", "."} -> NumberOrReference(d, o)
         [] OTHER -> Token("keyword", "nil", ReadKeyword(d, o))

Frame(kind, phase, n) == [kind |-> kind, phase |-> phase, n |-> n]

\* the loops of ReadArray and ReadDictionary take what ReadObject returned:
\* the frames left open, innermost first; a loop that stops returns its array
\* or dictionary, with a nil error, to the loop around it
RECURSIVE Deliver(_, _, _)
Deliver(fs, kind, err) ==
    IF fs = <<>> THEN fs
    ELSE LET f == Head(fs)
         IN IF f.kind = "array"
            THEN IF err \in {"ErrorRead", "EndOfArray"}
                 THEN Deliver(Tail(fs), "array", "nil")
                 ELSE <<Frame("array", "element", f.n + 1)>> \o Tail(fs)
            ELSE IF err \in {"ErrorRead", "EndOfDictionary"}
                 THEN Deliver(Tail(fs), "dictionary", "nil")
                 ELSE IF f.phase = "key"
                      THEN IF kind # "name" \/ err # "nil"
                           THEN <<Frame("dictionary", "key", f.n + 1)>> \o Tail(fs)
                           ELSE <<Frame("dictionary", "value", f.n)>> \o Tail(fs)
                      ELSE <<Frame("dictionary", "key", f.n + 1)>> \o Tail(fs)

\* the iterations a loop of the model may count
MaxIter == MaxLen + 2

ReadObjectInit ==
    /\ data \in ObjectInputs
    /\ offset = 0
    /\ frames = <<>>
    /\ pc = "ReadObject"
    /\ crypt = "none"
    /\ outcome = "none"
    /\ buffered = 0
    /\ security_handler = defaultSecurityHandler
    /\ file = File(<<>>, NoOff)
    /\ Xref = EmptyXref
    /\ trailer = EmptyTrailer
    /\ xref_offsets = {}
    /\ cur = NoOff
    /\ stack = <<>>
    /\ todo = <<>>
    /\ parses = NoParses
    /\ repaired = FALSE
    /\ object = NullObject(0)
    /\ rcur = 0
    /\ rvisited = {}
    /\ rresult = Null

\* one call of ReadObject: by the caller for the value, or by the loop of the
\* innermost open array or dictionary for its next element
ReadObject ==
    /\ pc = "ReadObject"
    /\ \A i \in DOMAIN frames : frames[i].n < MaxIter
    /\ LET t == ReadToken(data, offset)
       IN /\ offset' = t.off
          /\ outcome' = IF frames = <<>> THEN t ELSE outcome
          /\ IF t.kind = "["
             THEN frames' = <<Frame("array", "element", 0)>> \o frames /\ pc' = pc
             ELSE IF t.kind = "<<"
             THEN frames' = <<Frame("dictionary", "key", 0)>> \o frames /\ pc' = pc
             ELSE /\ frames' = Deliver(frames, t.kind, t.err)
                  /\ pc' = IF frames' = <<>> THEN "done" ELSE pc
    /\ UNCHANGED <<data, crypt, buffered, security_handler, file, Xref, trailer, xref_offsets, cur, stack,
                   todo, parses, repaired, ovars>>

ReadObjectNext == ReadObject

SpecReadObject == ReadObjectInit /\ [][ReadObjectNext]_vars

(***************************************************************************)
(* Parser.GetObject on stream objects of an encrypted document             *)
(* (pdf/parser.go, pdf/encryption.go).  Of a stream only its length is     *)
(* kept; crypt holds the stream filter of the security handler, the length *)
(* of its key in bytes and, per object, the length of the stream data and  *)
(* the IsEncrypted flag of the xref entry.                                 *)
(***************************************************************************)
MaxBlocks == 2
\* aes.BlockSize
BlockSize == 16
StreamLengths == 0..(MaxBlocks * BlockSize + 1)
\* the least and the greatest length NewSecurityHandler leaves in sh.length
KeyLengths == {5, 16}
\* the key lengths aes.NewCipher accepts
AESKeySizes == {16, 24, 32}
Streams == {1, 2}

\* CryptFilterAES.Init / CryptFilterRC4.Init: the length of the salted key
SaltedKeyLength(l) == IF l + 5 > 16 THEN 16 ELSE l + 5

\* CryptFilterAES.Decrypt of n bytes with a key of l bytes: the length of the
\* result, or "panic" where NewCBCDecrypter (nil block) or CryptBlocks (input
\* not full blocks) panics
AESDecrypt(l, n) ==
    IF n <= BlockSize THEN [status |-> "returned", length |-> 0]
    ELSE IF l \notin AESKeySizes THEN [status |-> "panic", length |-> 0]
    ELSE IF (n - BlockSize) % BlockSize # 0 THEN [status |-> "panic", length |-> 0]
    ELSE [status |-> "returned", length |-> n - BlockSize]

\* CryptFilterRC4.Decrypt and CryptFilterNone.Decrypt
RC4Decrypt(l, n) == [status |-> "returned", length |-> n]
NoneDecrypt(n) == [status |-> "returned", length |-> n]

\* the decryption of the stream in GetObject / ReadStream
DecryptStream(c, number) ==
    LET n == c.length[number]
    IN IF c.filter = "none" \/ ~c.encrypted[number] THEN NoneDecrypt(n)
       ELSE IF c.filter = "V2" THEN RC4Decrypt(SaltedKeyLength(c.keylen), n)
       ELSE AESDecrypt(SaltedKeyLength(c.keylen), n)

GetObjectInit ==
    /\ crypt \in [filter : {"none", "V2", "AESV2"}, keylen : KeyLengths,
                  length : [Streams -> StreamLengths], encrypted : [Streams -> BOOLEAN]]
    /\ outcome = [status |-> "none", length |-> 0]
    /\ buffered = 0
    /\ security_handler = defaultSecurityHandler
    /\ pc = "loaded"
    /\ data = <<>>
    /\ offset = 0
    /\ frames = <<>>
    /\ file = File(<<>>, NoOff)
    /\ Xref = EmptyXref
    /\ trailer = EmptyTrailer
    /\ xref_offsets = {}
    /\ cur = NoOff
    /\ stack = <<>>
    /\ todo = <<>>
    /\ parses = NoParses
    /\ repaired = FALSE
    /\ object = NullObject(0)
    /\ rcur = 0
    /\ rvisited = {}
    /\ rresult = Null

\* parser.GetObject(number) of a stream object; a panic ends the process
GetObject ==
    /\ pc = "loaded"
    /\ \E number \in Streams :
          /\ outcome' = DecryptStream(crypt, number)
          /\ IF outcome'.status = "panic"
             THEN pc' = "aborted" /\ object' = object
             ELSE /\ pc' = pc
                  /\ object' = [Number |-> number, Generation |-> 0,
                                Value |-> Val("dict"), Stream |-> "data"]
    /\ UNCHANGED <<crypt, buffered, security_handler, data, offset, frames, file, Xref, trailer, xref_offsets, cur,
                   stack, todo, parses, repaired, rcur, rvisited, rresult>>

GetObjectNext == GetObject

SpecGetObject == GetObjectInit /\ [][GetObjectNext]_vars

(***************************************************************************)
(* Pdf.RepairXref at the level of bytes (pdf/pdf.go): start_obj_regexp     *)
(* finds the headers, readInt reads the two integers of each.              *)
(***************************************************************************)
MaxChunks == 3

\* the pieces the inputs are put together from: headers with blank, comment
\* and NUL separators, and bytes that are no header
Chunks ==
    { <<"1", " ", "0", " ", "o", "b", "j">>,
      <<"2", " ", "0", " ", "o", "b", "j">>,
      <<"1", "\n", "1", "\n", "o", "b", "j">>,
      <<"1", "%", "x", "\n", "0", " ", "o", "b", "j">>,
      <<"2", "NUL", "1", "%", "\n", "\t", "o", "b", "j">>,
      <<"x">>, <<"1">>, <<"1", " ">>, <<"%">>, <<"\n">>, <<"o", "b", "j">> }

RECURSIVE Concat(_)
Concat(cs) == IF cs = <<>> THEN <<>> ELSE Head(cs) \o Concat(Tail(cs))
RepairInputs == {Concat(cs) : cs \in UNION {[1..k -> Chunks] : k \in 0..MaxChunks}}

SkipBlanksOnly(d, o) == IF o < Len(d) /\ d[o + 1] \in whitespace THEN o + 1 ELSE o

\* ReadBytes('\n'): past the next line feed, or to the end of the input
RECURSIVE ReadBytesLF(_, _)
ReadBytesLF(d, o) ==
    IF o >= Len(d) THEN o ELSE IF d[o + 1] = "\n" THEN o + 1 ELSE ReadBytesLF(d, o + 1)

\* Pdf.ConsumeWhitespace
RECURSIVE ConsumeWhitespace(_, _)
ConsumeWhitespace(d, o) ==
    IF o >= Len(d) THEN o
    ELSE IF d[o + 1] = "%" THEN ConsumeWhitespace(d, ReadBytesLF(d, o + 1))
    ELSE IF d[o + 1] \in whitespace THEN ConsumeWhitespace(d, o + 1)
    ELSE o

\* Pdf.readInt: the value, whether it returns an error, the offset it leaves
readInt(d, o) ==
    LET p == ConsumeWhitespace(d, o)
    IN IF ~IsDigit(ByteAt(d, p))
       THEN [value |-> 0, err |-> TRUE, off |-> p]
       ELSE LET r == ReadDigits(d, p, 0)
            IN [value |-> r.value, err |-> FALSE, off |-> r.off]

\* ([\s\x00]|(%[^\n]*\n))+ from offset o: the offset after the last separator
RECURSIVE SeparatorsEnd(_, _)
SeparatorsEnd(d, o) ==
    IF o >= Len(d) THEN o
    ELSE IF d[o + 1] \in whitespace THEN SeparatorsEnd(d, o + 1)
    ELSE IF d[o + 1] = "%" /\ (\E q \in (o + 2)..Len(d) : d[q] = "\n")
         THEN SeparatorsEnd(d, ReadBytesLF(d, o + 1))
    ELSE o

NoMatch == [start |-> 0 - 1, end |-> 0 - 1, n |-> 0, g |-> 0]

\* start_obj_regexp anchored at offset o: the match with the values of its
\* two digit runs, or NoMatch
MatchAt(d, o) ==
    LET a == DigitsEnd(d, o)
        b == SeparatorsEnd(d, a)
        c == DigitsEnd(d, b)
        e == SeparatorsEnd(d, c)
    IN IF a > o /\ b > a /\ c > b /\ e > c
          /\ ByteAt(d, e) = "o" /\ ByteAt(d, e + 1) = "b" /\ ByteAt(d, e + 2) = "j"
       THEN [start |-> o, end |-> e + 3,
             n |-> ReadDigits(d, o, 0).value, g |-> ReadDigits(d, b, 0).value]
       ELSE NoMatch

\* start_obj_regexp.FindReaderIndex on the input from offset o: the leftmost match
RECURSIVE FindReaderIndex(_, _)
FindReaderIndex(d, o) ==
    IF o >= Len(d) THEN NoMatch
    ELSE LET m == MatchAt(d, o)
         IN IF m # NoMatch THEN m ELSE FindReaderIndex(d, o + 1)

\* a map a failed load may have left
StaleXref == Put(EmptyXref, 3, NewXrefEntry(0, 0, "inuse"))

RepairInit ==
    /\ data \in RepairInputs
    /\ Xref \in {EmptyXref, StaleXref}
    /\ pc = "RepairXref"
    /\ offset = 0
    /\ frames = <<>>
    /\ crypt = "none"
    /\ outcome = "none"
    /\ buffered = 0
    /\ security_handler = defaultSecurityHandler
    /\ file = File(<<>>, NoOff)
    /\ trailer = EmptyTrailer
    /\ xref_offsets = {}
    /\ cur = NoOff
    /\ stack = <<>>
    /\ todo = <<>>
    /\ parses = NoParses
    /\ repaired = FALSE
    /\ object = NullObject(0)
    /\ rcur = 0
    /\ rvisited = {}
    /\ rresult = Null

\* RepairXref up to its loop: clear the xref, seek to the start of the file
RepairClear ==
    /\ pc = "RepairXref"
    /\ Xref' = EmptyXref
    /\ offset' = 0
    /\ pc' = "scan"
    /\ UNCHANGED <<data, frames, crypt, buffered, security_handler, outcome, file, trailer, xref_offsets, cur, stack,
                   todo, parses, repaired, ovars>>

\* one iteration of the loop of RepairXref
RepairScan ==
    /\ pc = "scan"
    /\ LET index == FindReaderIndex(data, offset)
           n == readInt(data, index.start)
           g == readInt(data, n.off)
       IN IF index = NoMatch \/ n.err \/ g.err
          THEN /\ pc' = "repaired"
               /\ repaired' = TRUE
               /\ UNCHANGED <<Xref, offset>>
          ELSE /\ Xref' = Put(Xref, n.value, NewXrefEntry(index.start, g.value, "inuse"))
               /\ offset' = index.end
               /\ UNCHANGED <<pc, repaired>>
    /\ UNCHANGED <<data, frames, crypt, buffered, security_handler, outcome, file, trailer, xref_offsets, cur, stack,
                   todo, parses, ovars>>

RepairNext == RepairClear \/ RepairScan

SpecRepair == RepairInit /\ [][RepairNext]_vars

(***************************************************************************)
(* Parser.ReadStream / Pdf.readStream at the level of bytes, read through  *)
(* the bufio.Reader of the parser.  data holds the bytes after the keyword *)
(* `stream`, buffered the number of them the reader has in its buffer when *)
(* ReadStream is called; a read from an empty buffer fills it with what    *)
(* is left of the input.                                                   *)
(***************************************************************************)
MaxPayload == 3

EndMarker == <<"e", "n", "d", "s", "t", "r", "e", "a", "m">>
\* buff := make([]byte, 9)
EndBuffSize == 9

\* what follows the keyword `stream` up to the stream data
StreamLineEnds == {<<"\n">>, <<"\r", "\n">>, <<"\r">>, <<" ", "\n">>, <<>>}
PayloadBytes == {"H", "\r", "\n", "e"}
Payloads == UNION {[1..k -> PayloadBytes] : k \in 0..MaxPayload}
\* what follows the payload
StreamTails ==
    { EndMarker, EndMarker \o <<"\n">>, EndMarker \o EndMarker,
      SubSeq(EndMarker, 1, 8), <<>> }
StreamInputs == {l \o p \o t : l \in StreamLineEnds, p \in Payloads, t \in StreamTails}

\* bufio.Reader: r.off bytes are consumed, r.buf bytes are buffered
Reader(off, buf) == [off |-> off, buf |-> buf]
\* bufio.Reader.fill when the buffer is empty
Refill(d, r) == IF r.buf = 0 THEN Reader(r.off, Len(d) - r.off) ELSE r
Advance(r) == Reader(r.off + 1, r.buf - 1)

\* a first loop that does not put back the byte read after a carriage return
RECURSIVE SkipLineWithoutUnread(_, _)
SkipLineWithoutUnread(d, r) ==
    LET q == Refill(d, r)
    IN IF q.buf = 0 THEN [eof |-> TRUE, r |-> q]
       ELSE IF d[q.off + 1] = "\n" THEN [eof |-> FALSE, r |-> Advance(q)]
       ELSE IF d[q.off + 1] = "\r"
            THEN LET q2 == Refill(d, Advance(q))
                 IN IF q2.buf = 0 THEN [eof |-> TRUE, r |-> q2]
                    ELSE [eof |-> FALSE, r |-> Advance(q2)]
       ELSE SkipLineWithoutUnread(d, Advance(q))

\* the first loop of ReadStream: read until the new line; eof where ReadByte fails
RECURSIVE SkipLine(_, _)
SkipLine(d, r) ==
    LET q == Refill(d, r)
    IN IF q.buf = 0 THEN [eof |-> TRUE, r |-> q]
       ELSE IF d[q.off + 1] = "\n" THEN [eof |-> FALSE, r |-> Advance(q)]
       ELSE IF d[q.off + 1] = "\r"
            THEN LET q2 == Refill(d, Advance(q))
                 IN IF q2.buf = 0 THEN [eof |-> TRUE, r |-> q2]
                    ELSE IF d[q2.off + 1] = "\n" THEN [eof |-> FALSE, r |-> Advance(q2)]
                    ELSE [eof |-> FALSE, r |-> q2]
       ELSE SkipLine(d, Advance(q))

\* bufio.Reader.Read(buff): the bytes of the buffer, at most len(buff) of them
BytesRead(d, r) ==
    LET q == Refill(d, r) IN IF q.buf < EndBuffSize THEN q.buf ELSE EndBuffSize

\* truncate last new line from stream_data
TruncateNewLine(s) ==
    LET l == Len(s)
    IN IF l >= 1 /\ s[l] = "\n"
       THEN (IF l >= 2 /\ s[l - 1] = "\r" THEN SubSeq(s, 1, l - 2) ELSE SubSeq(s, 1, l - 1))
       ELSE IF l >= 1 /\ s[l] = "\r" THEN SubSeq(s, 1, l - 1)
       ELSE s

\* the second loop of ReadStream: end_buff slides over the input from offset o
RECURSIVE SlideEndBuff(_, _, _, _)
SlideEndBuff(d, o, end_buff, stream_data) ==
    IF end_buff = EndMarker THEN TruncateNewLine(stream_data)
    ELSE IF end_buff = <<>> THEN stream_data
    ELSE LET s == Append(stream_data, Head(end_buff))
         IN IF o >= Len(d) THEN s \o Tail(end_buff)
            ELSE SlideEndBuff(d, o + 1, Append(Tail(end_buff), d[o + 1]), s)

\* ReadStream with no decryption and no filter: the stream it returns
ReadStream(d, o, buf) ==
    LET line == SkipLine(d, Reader(o, buf))
        n == BytesRead(d, line.r)
    IN IF line.eof THEN <<>>
       ELSE SlideEndBuff(d, line.r.off + n, SubSeq(d, line.r.off + 1, line.r.off + n), <<>>)

\* the variables of the document, unused by the byte-level readers
NoDocument ==
    /\ file = File(<<>>, NoOff)
    /\ Xref = EmptyXref
    /\ trailer = EmptyTrailer
    /\ xref_offsets = {}
    /\ cur = NoOff
    /\ stack = <<>>
    /\ todo = <<>>
    /\ parses = NoParses
    /\ repaired = FALSE
    /\ object = NullObject(0)
    /\ rcur = 0
    /\ rvisited = {}
    /\ rresult = Null

ReadStreamInit ==
    /\ data \in StreamInputs
    /\ buffered \in 0..Len(data)
    /\ offset = 0
    /\ pc = "ReadStream"
    /\ outcome = <<>>
    /\ frames = <<>>
    /\ crypt = "none"
    /\ security_handler = defaultSecurityHandler
    /\ NoDocument

\* one call of ReadStream by GetObject / ReadObject
ReadStreamCall ==
    /\ pc = "ReadStream"
    /\ outcome' = ReadStream(data, offset, buffered)
    /\ pc' = "returned"
    /\ UNCHANGED <<data, offset, buffered, frames, crypt, security_handler, file, Xref,
                   trailer, xref_offsets, cur, stack, todo, parses, repaired, ovars>>

ReadStreamNext == ReadStreamCall

\* ReadStream up to the end of its first loop: the bytes consumed when the
\* stream data starts, or when the function returns at the end of the input
ReadStreamSkip ==
    /\ pc = "ReadStream"
    /\ LET line == SkipLine(data, Reader(offset, buffered))
       IN /\ offset' = line.r.off
          /\ buffered' = line.r.buf
          /\ pc' = IF line.eof THEN "returned" ELSE "skipped"
    /\ UNCHANGED <<data, outcome, frames, crypt, security_handler, file, Xref,
                   trailer, xref_offsets, cur, stack, todo, parses, repaired, ovars>>

SkipLineNext == ReadStreamSkip

SpecSkipLine == ReadStreamInit /\ [][SkipLineNext]_vars

SpecReadStream == ReadStreamInit /\ [][ReadStreamNext]_vars

(***************************************************************************)
(* Parser.ReadObject called again and again on one input: numbers and      *)
(* references (pdf/parser.go).                                             *)
(***************************************************************************)
MaxNumLen == 5

NumberBytes == {"1", "0", "-", ".", "R", " ", "x"}
NumberInputs == UNION {[1..k -> NumberBytes] : k \in 0..MaxNumLen}

ReadNumbersInit ==
    /\ data \in NumberInputs
    /\ offset = 0
    /\ frames = <<>>
    /\ pc = "ReadObject"
    /\ crypt = "none"
    /\ outcome = "none"
    /\ buffered = 0
    /\ security_handler = defaultSecurityHandler
    /\ NoDocument

\* the caller of ReadObject calls it again for the next value
ReadNextObject ==
    /\ pc = "done"
    /\ offset < Len(data)
    /\ pc' = "ReadObject"
    /\ UNCHANGED <<data, offset, frames, outcome, crypt, buffered, security_handler, file,
                   Xref, trailer, xref_offsets, cur, stack, todo, parses, repaired, ovars>>

ReadNumbersNext == ReadObject \/ ReadNextObject

SpecReadNumbers == ReadNumbersInit /\ [][ReadNumbersNext]_vars

(***************************************************************************)
(* Parser.ReadObject called again and again on a sequence of well-formed   *)
(* values (pdf/parser.go).  todo holds the offsets at which the values of  *)
(* the input end, cur the offset at which the call under way started.      *)
(***************************************************************************)
MaxValues == 2

WellFormed ==
    { <<"/", "a">>,
      <<"1">>,
      <<"1", ".", "5">>,
      <<"1", " ", "0", " ", "R">>,
      <<"n", "u", "l", "l">>,
      <<"(", "a", "(", "b", ")", ")">>,
      <<"<", "1", " ", "f", ">">>,
      <<"[", "1", " ", "/", "a", "]">>,
      <<"<", "<", "/", "a", " ", "1", ">", ">">>,
      <<"[", "<", "<", "/", "a", "[", "]", ">", ">", "(", "a", ")", "]">> }
\* what may stand between two values: nothing, whitespace, a comment
Separators == {<<>>, <<" ">>, <<"\n", " ">>, <<"%", "c", "\n">>}
Pieces == [v : WellFormed, s : Separators]
\* two values with nothing between them are two values when a delimiter
\* ends the first or starts the second
Separated(p, q) ==
    p.s # <<>> \/ p.v[Len(p.v)] \in delimiters \/ q.v[1] \in delimiters
ValueSeqs ==
    {ps \in UNION {[1..k -> Pieces] : k \in 1..MaxValues} :
        \A i \in 1..(Len(ps) - 1) : Separated(ps[i], ps[i + 1])}

RECURSIVE PieceBytes(_)
PieceBytes(ps) == IF ps = <<>> THEN <<>> ELSE Head(ps).v \o Head(ps).s \o PieceBytes(Tail(ps))
\* the offsets at which the values end
RECURSIVE ValueEnds(_, _)
ValueEnds(ps, o) ==
    IF ps = <<>> THEN <<>>
    ELSE <<o + Len(Head(ps).v)>> \o ValueEnds(Tail(ps), o + Len(Head(ps).v) + Len(Head(ps).s))

ReadValuesInit ==
    /\ \E ps \in ValueSeqs : data = PieceBytes(ps) /\ todo = ValueEnds(ps, 0)
    /\ offset = 0
    /\ cur = 0
    /\ frames = <<>>
    /\ pc = "ReadObject"
    /\ crypt = "none"
    /\ outcome = "none"
    /\ buffered = 0
    /\ security_handler = defaultSecurityHandler
    /\ file = File(<<>>, NoOff)
    /\ Xref = EmptyXref
    /\ trailer = EmptyTrailer
    /\ xref_offsets = {}
    /\ stack = <<>>
    /\ parses = NoParses
    /\ repaired = FALSE
    /\ object = NullObject(0)
    /\ rcur = 0
    /\ rvisited = {}
    /\ rresult = Null

\* the caller of ReadObject calls it for the next value; cur records where
ReadNextValue ==
    /\ pc = "done"
    /\ offset < Len(data)
    /\ pc' = "ReadObject"
    /\ cur' = offset
    /\ UNCHANGED <<data, offset, frames, outcome, crypt, buffered, security_handler, file,
                   Xref, trailer, xref_offsets, stack, todo, parses, repaired, ovars>>

ReadValuesNext == ReadObject \/ ReadNextValue

SpecReadValues == ReadValuesInit /\ [][ReadValuesNext]_vars

(***************************************************************************)
(* The end of Parser.Load: SetPassword and NewSecurityHandler              *)
(* (pdf/parser.go, pdf/encryption.go).  crypt holds the Encrypt dictionary *)
(* of the trailer, NoEncrypt when the trailer has none; data holds the     *)
(* password.  MD5 and RC4 are taken to be free of collisions: the U entry  *)
(* is the algorithm and the password it was computed with.                 *)
(***************************************************************************)
MaxV == 5
MaxR == 5

Passwords == {<<>>, <<"u">>}
\* the trailer has no Encrypt; the Encrypt dictionary has no R
NoEncrypt == [Filter |-> "absent"]
MissingR == 0 - 1
\* the U entry Algorithm 4 (R = 2) or Algorithm 5 (R >= 3) computes
ComputeU(r, password) == [alg |-> IF r = 2 THEN 4 ELSE 5, password |-> password]
\* the lengths of the U entry: a string cut short, and the 32 bytes of a whole one
ULengths == {8, 32}
EncryptDictionaries ==
    [Filter : {"missing", "Standard", "Other"}, V : 0..MaxV, R : {MissingR} \cup (1..MaxR),
     U : [alg : {4, 5}, password : Passwords], ulen : ULengths,
     complete : BOOLEAN]

ErrorPassword == "ErrorPassword"
Result(sh, err) == [sh |-> sh, err |-> err]

\* NewSecurityHandler(password, trailer); e is the Encrypt dictionary.  With
\* capacity false the slice sh.u[:16] of a U entry shorter than 16 bytes is
\* out of range, with capacity true the bytes of U have room for it
NewSecurityHandler(password, e, capacity) ==
    IF e.Filter = "missing" THEN Result("sh", "Encrypt dictionary missing required Filter field")
    ELSE IF e.Filter # "Standard" THEN Result("sh", "Unsupported encryption filter")
    ELSE IF e.V \notin {1, 2, 4} THEN Result("sh", "Unsupported encryption version")
    ELSE IF e.R = MissingR THEN Result("sh", "Encrypt dictionary missing required R field")
    ELSE IF e.R < 2 \/ e.R > 4 THEN Result("sh", "Unsupported encryption revision")
    ELSE IF ~e.complete THEN Result("sh", "Encrypt dictionary missing required field")
    ELSE IF e.R >= 3 /\ e.ulen < 16 /\ ~capacity THEN Result("sh", "panic")
    ELSE IF e.R >= 3 /\ e.ulen < 16 THEN Result("sh", ErrorPassword)
    ELSE IF ComputeU(e.R, password) # e.U THEN Result("sh", ErrorPassword)
    ELSE Result([v |-> e.V, r |-> e.R, password |-> password], "nil")

SetPasswordInit ==
    /\ crypt \in EncryptDictionaries \cup {NoEncrypt}
    /\ data \in Passwords
    /\ security_handler = defaultSecurityHandler
    /\ pc = "SetPassword"
    /\ outcome = "none"
    /\ offset = 0
    /\ frames = <<>>
    /\ buffered = 0
    /\ NoDocument

\* Load from `setup security handler if pdf is encrypted` to its return
SetPassword ==
    /\ pc = "SetPassword"
    /\ IF crypt = NoEncrypt
       THEN pc' = "loaded" /\ outcome' = "nil" /\ UNCHANGED security_handler
       ELSE \E capacity \in BOOLEAN :
              LET res == NewSecurityHandler(data, crypt, capacity)
              IN IF res.err = "panic"
                 THEN pc' = "aborted" /\ UNCHANGED <<outcome, security_handler>>
                 ELSE IF res.err # "nil"
                 THEN pc' = "failed" /\ outcome' = ErrorPassword /\ UNCHANGED security_handler
                 ELSE pc' = "loaded" /\ outcome' = "nil" /\ security_handler' = res.sh
    /\ UNCHANGED <<data, offset, frames, crypt, buffered, file, Xref, trailer, xref_offsets,
                   cur, stack, todo, parses, repaired, ovars>>

SetPasswordNext == SetPassword

SpecSetPassword == SetPasswordInit /\ [][SetPasswordNext]_vars

(***************************************************************************)
(* CryptFilterAES.Init / CryptFilterRC4.Init and Decrypt                   *)
(* (pdf/encryption.go).  crypt holds the filter of the security handler    *)
(* with the file key, outcome the filter Init returned last and what its   *)
(* Decrypt returned, data the bytes given to Decrypt.  MD5 is the record   *)
(* of what was hashed, RC4 and AES the record of key and input.            *)
(***************************************************************************)
FileKeys == [id : {"k1", "k2"}, len : KeyLengths]
BaseFilters == [kind : {"V2", "AESV2"}, encryption_key : FileKeys]
\* object numbers, one of them beyond the three bytes Init takes of n
KeyObjNums == ObjNums \cup {16777216 + 1}
Ciphertexts == {"c1", "c2"}

\* the three low bytes of n and the two low bytes of g
LowBytes(n, count) == n % (IF count = 3 THEN 16777216 ELSE 65536)
\* hash.Sum(nil) of the salt, truncated to l bytes
MD5(salt, l) == [md5 |-> salt, len |-> l]

\* an Init that hashes the file key alone, whatever the object
CryptFilterInitUnsalted(c, n, g) ==
    [kind |-> c.kind,
     encryption_key |-> MD5(<<c.encryption_key>>, SaltedKeyLength(c.encryption_key.len))]

\* c.Init(n, g): the filter it returns
CryptFilterInit(c, n, g) ==
    LET salt == <<c.encryption_key, LowBytes(n, 3), LowBytes(g, 2)>>
                   \o (IF c.kind = "AESV2" THEN <<"sAlT">> ELSE <<>>)
    IN [kind |-> c.kind,
        encryption_key |-> MD5(salt, SaltedKeyLength(c.encryption_key.len))]
\* c.Decrypt(data)
CryptFilterDecrypt(c, bytes) == [cipher |-> c.kind, key |-> c.encryption_key, input |-> bytes]

NoFilter == [kind |-> "none", encryption_key |-> [id |-> "none", len |-> 0]]
NoOutput == [cipher |-> "none"]
Derived(n, g, filter, out) == [n |-> n, g |-> g, filter |-> filter, out |-> out]

CryptInit ==
    /\ crypt \in BaseFilters
    /\ outcome = Derived(0, 0, NoFilter, NoOutput)
    /\ data = "none"
    /\ pc = "loaded"
    /\ offset = 0
    /\ frames = <<>>
    /\ buffered = 0
    /\ security_handler = defaultSecurityHandler
    /\ NoDocument

\* a decryptor is derived for object n g: Init(n, g) of the filter of the
\* security handler
InitCall ==
    /\ pc = "loaded"
    /\ \E n \in KeyObjNums, g \in Gens :
          outcome' = Derived(n, g, CryptFilterInit(crypt, n, g), NoOutput)
    /\ UNCHANGED <<crypt, data, pc, offset, frames, buffered, security_handler, file, Xref,
                   trailer, xref_offsets, cur, stack, todo, parses, repaired, ovars>>

\* the derived decryptor decrypts a string or a stream
DecryptCall ==
    /\ pc = "loaded"
    /\ outcome.filter # NoFilter
    /\ \E bytes \in Ciphertexts :
          /\ data' = bytes
          /\ outcome' = [outcome EXCEPT !.out = CryptFilterDecrypt(outcome.filter, bytes)]
    /\ UNCHANGED <<crypt, pc, offset, frames, buffered, security_handler, file, Xref,
                   trailer, xref_offsets, cur, stack, todo, parses, repaired, ovars>>

CryptNext == InitCall \/ DecryptCall

SpecCrypt == CryptInit /\ [][CryptNext]_vars

(***************************************************************************)
(* Reads on the opened document, with the embedded-file walk in between    *)
(***************************************************************************)

\* Parser.extractFiles on the loaded document: the entry of the file reference
\* is marked, then the reference is resolved
extractFiles ==
    /\ pc = "loaded"
    /\ \E number \in 1..(MaxObj + 1) :
          /\ Xref' = MarkEmbeddedFile(Xref, number)
          /\ rcur' = number
    /\ rvisited' = {}
    /\ rresult' = Null
    /\ pc' = "Resolve"
    /\ UNCHANGED <<file, trailer, xref_offsets, cur, stack, todo, parses, repaired,
                   object, bvars>>

ExtractInit == ResolveInit
ExtractNext == ResolveNext \/ extractFiles
SpecExtract == ExtractInit /\ [][ExtractNext]_vars

(***************************************************************************)
(* The values the object parsers build (pdf/parser.go, pdf/pdf.go):        *)
(* ReadObject with the arrays and dictionaries it reads in, for Parser and *)
(* for Pdf. A dictionary is the map from the bytes of its keys to their    *)
(* values. max_calls bounds the iterations of a loop that consumes no      *)
(* byte; a reader that runs out of it returns the error "unbounded".       *)
(***************************************************************************)
MaxTokens == 5

NameValue(bytes) == [t |-> "name", bytes |-> bytes]
StringValue(bytes) == [t |-> "string", bytes |-> bytes]
\* the digits of a hex string, as read
HexStringValue(bytes) == [t |-> "hexstring", bytes |-> bytes]
KeywordValue(bytes) == [t |-> "keyword", bytes |-> bytes]
ArrayValue(elements) == [t |-> "array", elements |-> elements]
DictionaryValue(pairs) == [t |-> "dictionary", pairs |-> pairs]
EmptyDictionary == [k \in {} |-> Null]
Returned(val, err, off) == [val |-> val, err |-> err, off |-> off]

\* the value of the token t that starts at offset p and is no array and no
\* dictionary
TokenValue(d, p, t) ==
    CASE t.kind = "name" -> NameValue(SubSeq(d, p + 2, t.off))
      [] t.kind = "string" /\ ByteAt(d, p) = "(" -> StringValue(ReadStringBytes(d, p).bytes)
      [] t.kind = "string" /\ ByteAt(d, p) # "(" ->
             HexStringValue(SubSeq(d, p + 2, IF ByteAt(d, t.off - 1) = ">"
                                             THEN t.off - 1 ELSE t.off))
      [] t.kind \in {"number", "reference"} -> t.val
      [] t.kind = "keyword" -> KeywordValue(SubSeq(d, p + 1, t.off))
      [] OTHER -> Null

\* a loop that takes only the end of the input for its end
StopsAtEOFOnly(err, ends) == err = "ErrorRead"
\* the error ends the loop of ReadArray or of ReadDictionary
Stops(err, ends) == err \in ends

\* Parser.ReadObject, the loop of Parser.ReadArray and the loop of
\* Parser.ReadDictionary
RECURSIVE ParserReadValue(_, _, _)
RECURSIVE ReadArrayLoop(_, _, _, _)
RECURSIVE ReadDictionaryLoop(_, _, _, _)
ParserReadValue(d, o, max_calls) ==
    LET t == ReadToken(d, o)
    IN IF t.kind = "[" THEN ReadArrayLoop(d, t.off, <<>>, max_calls)
       ELSE IF t.kind = "<<" THEN ReadDictionaryLoop(d, t.off, EmptyDictionary, max_calls)
       ELSE Returned(TokenValue(d, consumeWhitespace(d, o), t), t.err, t.off)

ReadArrayLoop(d, o, array, max_calls) ==
    IF max_calls = 0 THEN Returned(ArrayValue(array), "unbounded", o)
    ELSE LET element == ParserReadValue(d, o, max_calls - 1)
         IN IF element.err = "unbounded" THEN element
            ELSE IF Stops(element.err, {"ErrorRead", "EndOfArray"})
            THEN Returned(ArrayValue(array), "nil", element.off)
            ELSE ReadArrayLoop(d, element.off, Append(array, element.val), max_calls - 1)

ReadDictionaryLoop(d, o, dictionary, max_calls) ==
    IF max_calls = 0 THEN Returned(DictionaryValue(dictionary), "unbounded", o)
    ELSE LET name == ParserReadValue(d, o, max_calls - 1)
             value == ParserReadValue(d, name.off, max_calls - 1)
             added == Put(dictionary, name.val.bytes, value.val)
         IN IF name.err = "unbounded" THEN name
            ELSE IF Stops(name.err, {"ErrorRead", "EndOfDictionary"})
            THEN Returned(DictionaryValue(dictionary), "nil", name.off)
            ELSE IF name.val.t # "name" \/ name.err # "nil"
            THEN ReadDictionaryLoop(d, name.off, dictionary, max_calls - 1)
            ELSE IF value.err = "unbounded" THEN value
            ELSE IF Stops(value.err, {"ErrorRead", "EndOfDictionary"})
            THEN Returned(DictionaryValue(added), "nil", value.off)
            ELSE ReadDictionaryLoop(d, value.off, added, max_calls - 1)

\* the bytes Pdf.readKeyword takes: a to z and R
KeywordLetters ==
    {"a", "b", "c", "d", "e", "f", "g", "h", "i", "j", "k", "l", "m", "n", "o", "p",
     "q", "r", "s", "t", "u", "v", "w", "x", "y", "z", "R"}

\* Pdf.readKeyword: the offset it leaves
RECURSIVE LettersEnd(_, _)
LettersEnd(d, o) ==
    IF o < Len(d) /\ d[o + 1] \in KeywordLetters THEN LettersEnd(d, o + 1) ELSE o
readKeyword(d, o) == LettersEnd(d, ConsumeWhitespace(d, o))

\* Pdf.readName: the name, the error and the offset left; Discard stops at
\* the end of the input
readName(d, o) ==
    LET p == ConsumeWhitespace(d, o)
        b == ByteAt(d, p)
    IN IF b = "EOF" THEN [bytes |-> <<>>, err |-> "EOF", off |-> p]
       ELSE IF b = ">"
       THEN [bytes |-> <<>>, err |-> "EndOfDictionary",
             off |-> IF p + 2 <= Len(d) THEN p + 2 ELSE p + 1]
       ELSE IF b # "/" THEN [bytes |-> <<>>, err |-> "Expected /", off |-> p + 1]
       ELSE [bytes |-> SubSeq(d, p + 2, RegularEnd(d, p + 1)), err |-> "nil",
             off |-> RegularEnd(d, p + 1)]

\* the numbers and references of Pdf.readObject, called where a number starts
readNumberOrReference(d, p) ==
    LET number == ReadNumber(d, p)
        generation == readInt(d, number.off)
        keyword == SubSeq(d, ConsumeWhitespace(d, generation.off) + 1,
                          readKeyword(d, generation.off))
    IN IF generation.err \/ keyword # <<"R">>
       THEN [Token("number", "nil", number.off) EXCEPT !.val = NumberValue(number)]
       ELSE [Token("reference", "nil", readKeyword(d, generation.off))
                EXCEPT !.val = ReferenceValue(number, generation.value)]

\* Pdf.readObject up to a call of readArray or readDictionary
readToken(d, o) ==
    LET p == ConsumeWhitespace(d, o)
        b == ByteAt(d, p)
        b2 == ByteAt(d, p + 1)
    IN CASE b = "EOF" -> Token("null", "EOF", p)
         [] b = "/" -> Token("name", "nil", readName(d, p).off)
         [] b = "[" -> Token("[", "nil", p + 1)
         [] b = "]" -> Token("null", "EndOfArray", p + 1)
         [] b = "(" -> Token("string", "nil", ReadString(d, p))
         [] b = "<" /\ b2 = "<" -> Token("<<", "nil", p + 2)
         [] b = ">" /\ b2 = ">" -> Token("null", "EndOfDictionary", p + 2)
         [] b = "<" /\ b2 # "<" -> Token("string", "nil", ReadHexString(d, p))
         [] b \in KeywordLetters -> Token("keyword", "nil", readKeyword(d, p))
         [] IsDigit(b) \/ b \in {"+", "-", "."} -> readNumberOrReference(d, p)
         [] OTHER -> Token("null", "Expected", p)

\* Pdf.readObject, the loop of Pdf.readArray and the loop of Pdf.readDictionary
RECURSIVE readObject(_, _, _)
RECURSIVE readArrayLoop(_, _, _, _)
RECURSIVE readDictionaryLoop(_, _, _, _)
readObject(d, o, max_calls) ==
    LET t == readToken(d, o)
    IN IF t.kind = "[" THEN readArrayLoop(d, t.off, <<>>, max_calls)
       ELSE IF t.kind = "<<" THEN readDictionaryLoop(d, t.off, EmptyDictionary, max_calls)
       ELSE Returned(TokenValue(d, ConsumeWhitespace(d, o), t), t.err, t.off)

readArrayLoop(d, o, array, max_calls) ==
    IF max_calls = 0 THEN Returned(ArrayValue(array), "unbounded", o)
    ELSE LET element == readObject(d, o, max_calls - 1)
         IN IF element.err = "unbounded" THEN element
            ELSE IF element.err # "nil"
            THEN Returned(ArrayValue(array), "nil", element.off)
            ELSE readArrayLoop(d, element.off, Append(array, element.val), max_calls - 1)

readDictionaryLoop(d, o, dictionary, max_calls) ==
    IF max_calls = 0 THEN Returned(DictionaryValue(dictionary), "unbounded", o)
    ELSE LET key == readName(d, o)
             value == readObject(d, key.off, max_calls - 1)
             added == Put(dictionary, key.bytes, value.val)
         IN IF key.err # "nil"
            THEN Returned(DictionaryValue(dictionary), "nil", key.off)
            ELSE IF value.err = "unbounded" THEN value
            ELSE IF value.err # "nil"
            THEN Returned(DictionaryValue(added), "nil", value.off)
            ELSE readDictionaryLoop(d, value.off, added, max_calls - 1)

\* the tokens the dictionaries are put together from, each with the value it
\* stands for: two names, a number, a string, a dictionary, an array and the
\* end-of-dictionary marker
One == [t |-> "number", int |-> 1, isNegative |-> FALSE, isReal |-> FALSE]
DictToken(bytes, val, end) == [bytes |-> bytes, val |-> val, end |-> end]
DictTokens ==
    { DictToken(<<"/", "A">>, NameValue(<<"A">>), FALSE),
      DictToken(<<"/", "B">>, NameValue(<<"B">>), FALSE),
      DictToken(<<" ", "1">>, One, FALSE),
      DictToken(<<"(", "s", ")">>, StringValue(<<"s">>), FALSE),
      DictToken(<<"<", "<", "/", "B", " ", "1", ">", ">">>,
                DictionaryValue(Put(EmptyDictionary, <<"B">>, One)), FALSE),
      DictToken(<<"[", "/", "A", "]">>, ArrayValue(<<NameValue(<<"A">>)>>), FALSE),
      DictToken(<<">", ">">>, Null, TRUE) }
DictTokenSeqs == UNION {[1..k -> DictTokens] : k \in 0..MaxTokens}
RECURSIVE DictBytes(_)
DictBytes(toks) == IF toks = <<>> THEN <<>> ELSE Head(toks).bytes \o DictBytes(Tail(toks))

MaxCalls == MaxTokens + 3

\* a dictionary opened by `<<`, read by Parser or by Pdf; todo keeps the
\* tokens the input was put together from
ReadDictionaryInit ==
    /\ todo \in DictTokenSeqs
    /\ data = <<"<", "<">> \o DictBytes(todo)
    /\ pc \in {"ReadDictionary", "readDictionary"}
    /\ offset = 0
    /\ outcome = Returned(Null, "nil", 0)
    /\ buffered = 0
    /\ frames = <<>>
    /\ crypt = "none"
    /\ security_handler = defaultSecurityHandler
    /\ file = File(<<>>, NoOff)
    /\ Xref = EmptyXref
    /\ trailer = EmptyTrailer
    /\ xref_offsets = {}
    /\ cur = NoOff
    /\ stack = <<>>
    /\ parses = NoParses
    /\ repaired = FALSE
    /\ object = NullObject(0)
    /\ rcur = 0
    /\ rvisited = {}
    /\ rresult = Null

\* parser.ReadObject at the `<<`
ReadDictionaryCall ==
    /\ pc = "ReadDictionary"
    /\ outcome' = ParserReadValue(data, offset, MaxCalls)
    /\ offset' = outcome'.off
    /\ pc' = "done"
    /\ UNCHANGED <<file, Xref, trailer, xref_offsets, cur, stack, todo, parses, repaired,
                   ovars, data, frames, crypt, buffered, security_handler>>

\* pdf.readObject at the `<<`
readDictionaryCall ==
    /\ pc = "readDictionary"
    /\ outcome' = readObject(data, offset, MaxCalls)
    /\ offset' = outcome'.off
    /\ pc' = "returned"
    /\ UNCHANGED <<file, Xref, trailer, xref_offsets, cur, stack, todo, parses, repaired,
                   ovars, data, frames, crypt, buffered, security_handler>>

ReadDictionaryNext == ReadDictionaryCall \/ readDictionaryCall
SpecReadDictionary == ReadDictionaryInit /\ [][ReadDictionaryNext]_vars

(***************************************************************************)
(* Parser.ReadString on literal strings (pdf/parser.go)                    *)
(***************************************************************************)
MaxStrLen == 6

\* parentheses, the backslash, the comment sign and a letter that is also an
\* escape
StringBytes == {"(", ")", "\\", "%", "n"}
StringInputs == {<<"(">> \o s : s \in UNION {[1..k -> StringBytes] : k \in 0..MaxStrLen}}

ReadStringInit ==
    /\ data \in StringInputs
    /\ pc = "ReadString"
    /\ offset = 0
    /\ outcome = Returned(Null, "nil", 0)
    /\ buffered = 0
    /\ frames = <<>>
    /\ crypt = "none"
    /\ security_handler = defaultSecurityHandler
    /\ file = File(<<>>, NoOff)
    /\ Xref = EmptyXref
    /\ trailer = EmptyTrailer
    /\ xref_offsets = {}
    /\ cur = NoOff
    /\ stack = <<>>
    /\ todo = <<>>
    /\ parses = NoParses
    /\ repaired = FALSE
    /\ object = NullObject(0)
    /\ rcur = 0
    /\ rvisited = {}
    /\ rresult = Null

\* parser.ReadObject at the `(` with the decryptor that leaves the bytes as
\* they are
ReadStringCall ==
    /\ pc = "ReadString"
    /\ outcome' = ParserReadValue(data, offset, MaxCalls)
    /\ offset' = outcome'.off
    /\ pc' = "done"
    /\ UNCHANGED <<file, Xref, trailer, xref_offsets, cur, stack, todo, parses, repaired,
                   ovars, data, frames, crypt, buffered, security_handler>>

ReadStringNext == ReadStringCall
SpecReadString == ReadStringInit /\ [][ReadStringNext]_vars

(***************************************************************************)
(* The records of an xref stream (pdf/parser.go LoadXrefStream, pdf/pdf.go *)
(* readXrefStream): the Index array or its default, and the object number  *)
(* of each record. object.Value is the stream dictionary, object.Stream    *)
(* the records, already split into their three fields.                    *)
(***************************************************************************)
MaxRecords == 3

\* the name the entry types 0, 1 and 2 go by (the XrefType constants)
XrefType(t) ==
    CASE t = 0 -> "free"
      [] t = 1 -> "inuse"
      [] t = 2 -> "compressed"
      [] OTHER -> "unknown"

NoSize == 0 - 1
StreamTrailer(hasIndex, index, size) == [hasIndex |-> hasIndex, Index |-> index, Size |-> size]
Record(type, field2, field3) == [type |-> type, field2 |-> field2, field3 |-> field3]
Records == {Record(t, f2, f3) : t \in 0..2, f2 \in ObjOffsets, f3 \in {0, MaxGen}}
RecordSeqs == UNION {[1..k -> Records] : k \in 0..MaxRecords}
Indexes == {<<0, 2>>, <<1, 2>>, <<0, 1, 2, 1>>, <<2, 1, 0, 2>>, <<1>>, <<0, MaxRecords + 1>>}
StreamTrailers ==
    {StreamTrailer(FALSE, <<>>, size) : size \in {NoSize} \cup 0..MaxRecords}
    \cup {StreamTrailer(TRUE, index, MaxRecords) : index \in Indexes}

\* an Index that starts the default at object 1
IndexFromOne(t) ==
    IF t.hasIndex THEN [index |-> t.Index, err |-> FALSE]
    ELSE IF t.Size = NoSize THEN [index |-> <<>>, err |-> TRUE]
    ELSE [index |-> <<1, t.Size>>, err |-> FALSE]

\* trailer.GetArray("Index"), or [0 Size] when there is no Index; without
\* Size the loader returns an error
IndexOrDefault(t) ==
    IF t.hasIndex THEN [index |-> t.Index, err |-> FALSE]
    ELSE IF t.Size = NoSize THEN [index |-> <<>>, err |-> TRUE]
    ELSE [index |-> <<0, t.Size>>, err |-> FALSE]

\* the loops over the subsections and their records: the entries in the order
\* they are added, up to the record the data is short of; i is the position in
\* the Index array, j the position in the subsection, r the records read
RECURSIVE StreamEntries(_, _, _, _, _)
StreamEntries(index, records, i, j, r) ==
    IF i + 1 > Len(index) THEN <<>>
    ELSE IF j >= index[i + 1] THEN StreamEntries(index, records, i + 2, 0, r)
    ELSE IF r >= Len(records) THEN <<>>
    ELSE <<SecEntry(index[i] + j, records[r + 1].field2, records[r + 1].field3,
                    XrefType(records[r + 1].type))>>
         \o StreamEntries(index, records, i, j + 1, r + 1)

\* the entries the record loops add for the stream object
EntriesOfStream(obj) ==
    IF IndexOrDefault(obj.Value).err THEN <<>>
    ELSE StreamEntries(IndexOrDefault(obj.Value).index, obj.Stream, 1, 0, 0)

XrefStreamInit ==
    /\ object \in [Value : StreamTrailers, Stream : RecordSeqs]
    /\ pc \in {"LoadXrefStream", "readXrefStream"}
    /\ Xref = EmptyXref
    /\ file = File(<<>>, NoOff)
    /\ trailer = EmptyTrailer
    /\ xref_offsets = {}
    /\ cur = NoOff
    /\ stack = <<>>
    /\ todo = <<>>
    /\ parses = NoParses
    /\ repaired = FALSE
    /\ rcur = 0
    /\ rvisited = {}
    /\ rresult = Null
    /\ Idle

\* Parser.LoadXrefStream from the Index on: every record is assigned
LoadXrefStream ==
    /\ pc = "LoadXrefStream"
    /\ Xref' = ParserAddEntries(Xref, EntriesOfStream(object))
    /\ pc' = "return"
    /\ UNCHANGED <<file, trailer, xref_offsets, cur, stack, todo, parses, repaired, ovars, bvars>>

\* Pdf.readXrefStream from the Index on: every record goes through the
\* generation rule
readXrefStream ==
    /\ pc = "readXrefStream"
    /\ Xref' = PdfAddEntries(Xref, EntriesOfStream(object))
    /\ pc' = "return"
    /\ UNCHANGED <<file, trailer, xref_offsets, cur, stack, todo, parses, repaired, ovars, bvars>>

XrefStreamNext == LoadXrefStream \/ readXrefStream
SpecXrefStream == XrefStreamInit /\ [][XrefStreamNext]_vars

(***************************************************************************)
(* Parser.GetObject: the choice of the string decryptor and of the stream  *)
(* decryptor (pdf/parser.go), over the crypt filters NewSecurityHandler    *)
(* sets up (pdf/encryption.go).  crypt holds the filters of the security   *)
(* handler of the parser, Xref the entry of the object read, object the    *)
(* Filter and DecodeParms lists of its stream dictionary.  A filter is      *)
(* kept by its method and by the key it was made for.                      *)
(***************************************************************************)
MaxFilters == 2
\* var noFilter = &CryptFilterNone{}
noFilter == [kind |-> "None", of |-> "noFilter"]
\* the Encrypt dictionaries: R, the CFM of the crypt filter StdCF of CF, and
\* the names StmF, StrF and EEF
CryptFilterMethods == {"absent", "None", "V2", "AESV2"}
EncryptFilterInputs ==
    [r : {3, 4}, CFM : CryptFilterMethods, StmF : {"absent", "Identity", "StdCF"},
     StrF : {"absent", "StdCF"}, EEF : {"absent", "StdCF"}]

\* NewSecurityHandler: set default crypt filters
DefaultCryptFilters ==
    LET rc4 == [kind |-> "V2", of |-> "encryption_key"]
    IN [stream_filter |-> rc4, string_filter |-> rc4, file_filter |-> rc4,
        crypt_filters |-> [k \in {"Identity"} |-> noFilter]]

\* NewSecurityHandler: load additional crypt filters
LoadCryptFilters(sh, e) ==
    IF e.CFM = "absent" THEN sh
    ELSE [sh EXCEPT !.crypt_filters =
             Put(@, "StdCF", IF e.CFM = "None" THEN noFilter
                             ELSE [kind |-> e.CFM, of |-> "StdCF"])]

\* NewSecurityHandler: one default filter override
FilterNamed(sh, name, current) ==
    IF name # "absent" /\ Has(sh.crypt_filters, name) THEN sh.crypt_filters[name]
    ELSE current

\* the filters of the handler NewSecurityHandler returns
HandlerFilters(e) ==
    IF e.r # 4 THEN DefaultCryptFilters
    ELSE LET sh == LoadCryptFilters(DefaultCryptFilters, e)
         IN [sh EXCEPT !.stream_filter = FilterNamed(sh, e.StmF, @),
                       !.string_filter = FilterNamed(sh, e.StrF, @),
                       !.file_filter = FilterNamed(sh, e.EEF, @)]

\* the filters of the handler of a document that is not encrypted
defaultFilters ==
    [stream_filter |-> noFilter, string_filter |-> noFilter, file_filter |-> noFilter,
     crypt_filters |-> [k \in {"Identity"} |-> noFilter]]

\* filter.NewDecryptor(n, g): CryptFilterNone leaves the bytes as they are,
\* the other filters salt their key with n and g
IdentityDecryptor == [filter |-> noFilter, n |-> 0, g |-> 0]
NewDecryptor(filter, n, g) ==
    IF filter = noFilter THEN IdentityDecryptor ELSE [filter |-> filter, n |-> n, g |-> g]

\* GetObject: initialize string decryption filter
StringFilter(sh, xref_entry) == sh.string_filter

\* the Name of the first DecodeParms, "Identity" without one
NoName == "absent"
CryptFilterName(decode_parms_list) ==
    IF Len(decode_parms_list) = 0 \/ decode_parms_list[1] = NoName THEN "Identity"
    ELSE decode_parms_list[1]

\* a choice that never looks at the filter list
StreamFilterOfEntry(sh, xref_entry, filter_list, decode_parms_list) ==
    IF ~xref_entry.enc THEN noFilter
    ELSE IF xref_entry.emb THEN sh.file_filter ELSE sh.stream_filter

\* GetObject: create a stream decryptor
StreamFilter(sh, xref_entry, filter_list, decode_parms_list) ==
    IF ~xref_entry.enc THEN noFilter
    ELSE LET crypt_filter == IF xref_entry.emb THEN sh.file_filter ELSE sh.stream_filter
         IN IF Len(filter_list) > 0 /\ filter_list[1] = "Crypt"
                /\ Has(sh.crypt_filters, CryptFilterName(decode_parms_list))
            THEN sh.crypt_filters[CryptFilterName(decode_parms_list)]
            ELSE crypt_filter

\* GetObject: the lists handed to ReadStream
DecodeLists(xref_entry, filter_list, decode_parms_list) ==
    IF xref_entry.enc /\ Len(filter_list) > 0 /\ filter_list[1] = "Crypt"
    THEN [filter_list |-> Tail(filter_list),
          decode_parms_list |-> IF Len(decode_parms_list) > 0 THEN Tail(decode_parms_list)
                                ELSE decode_parms_list]
    ELSE [filter_list |-> filter_list, decode_parms_list |-> decode_parms_list]

FilterLists == UNION {[1..k -> {"Crypt", "FlateDecode"}] : k \in 0..MaxFilters}
DecodeParmsLists ==
    UNION {[1..k -> {NoName, "Identity", "StdCF", "Undefined"}] : k \in 0..MaxFilters}
Decryptors(str, stm, lists) ==
    [string_decryptor |-> str, stream_decryptor |-> stm,
     filter_list |-> lists.filter_list, decode_parms_list |-> lists.decode_parms_list]

FiltersInit ==
    /\ crypt \in {HandlerFilters(e) : e \in EncryptFilterInputs} \cup {defaultFilters}
    /\ \E g \in Gens, enc \in BOOLEAN, emb \in BOOLEAN :
          Xref = Put(EmptyXref, 1, [NewXrefEntry(3, g, "inuse") EXCEPT !.enc = enc, !.emb = emb])
    /\ object \in [Filter : FilterLists, DecodeParms : DecodeParmsLists]
    /\ outcome = Decryptors(IdentityDecryptor, IdentityDecryptor,
                            [filter_list |-> <<>>, decode_parms_list |-> <<>>])
    /\ pc = "loaded"
    /\ data = <<>>
    /\ offset = 0
    /\ frames = <<>>
    /\ buffered = 0
    /\ security_handler = defaultSecurityHandler
    /\ file = File(<<>>, NoOff)
    /\ trailer = EmptyTrailer
    /\ xref_offsets = {}
    /\ cur = NoOff
    /\ stack = <<>>
    /\ todo = <<>>
    /\ parses = NoParses
    /\ repaired = FALSE
    /\ rcur = 0
    /\ rvisited = {}
    /\ rresult = Null

\* parser.GetObject(1) of a stream object: the decryptors made and the lists
\* passed to ReadStream
GetObjectFilters ==
    /\ pc = "loaded"
    /\ LET number == 1
           xref_entry == Xref[number]
       IN outcome' = Decryptors(
              NewDecryptor(StringFilter(crypt, xref_entry), number, xref_entry.gen),
              NewDecryptor(StreamFilter(crypt, xref_entry, object.Filter, object.DecodeParms),
                           number, xref_entry.gen),
              DecodeLists(xref_entry, object.Filter, object.DecodeParms))
    /\ pc' = "read"
    /\ UNCHANGED <<crypt, object, Xref, buffered, security_handler, data, offset, frames, file,
                   trailer, xref_offsets, cur, stack, todo, parses, repaired, rcur, rvisited,
                   rresult>>

FiltersNext == GetObjectFilters

SpecFilters == FiltersInit /\ [][FiltersNext]_vars

(***************************************************************************)
(* Parser.Load to its end (pdf/parser.go): after the sections are loaded    *)
(* and the entries repaired, the entry of the object that the Encrypt       *)
(* reference of the trailer names is marked.  crypt holds the value of      *)
(* Encrypt in the trailer, Null without one.                                *)
(***************************************************************************)
EncryptValues == {Null, Val("dict")} \cup {RefVal(m) : m \in 1..(MaxObj + 1)}

\* Load: make sure we don't decrypt the encryption dictionary
ClearEncrypt(x, encrypt) ==
    IF IsRef(encrypt) /\ Has(x, encrypt.n) THEN [x EXCEPT ![encrypt.n].enc = FALSE] ELSE x

OpenInit ==
    /\ file \in FilesChain
    /\ crypt \in EncryptValues
    /\ Xref = EmptyXref
    /\ trailer = EmptyTrailer
    /\ xref_offsets = {}
    /\ pc = "Load"
    /\ cur = NoOff
    /\ stack = <<>>
    /\ todo = <<>>
    /\ parses = NoParses
    /\ repaired = FALSE
    /\ object = NullObject(0)
    /\ rcur = 0
    /\ rvisited = {}
    /\ rresult = Null
    /\ data = <<>>
    /\ offset = 0
    /\ frames = <<>>
    /\ outcome = "none"
    /\ buffered = 0
    /\ security_handler = defaultSecurityHandler

\* Load after the repair loop, up to the call of SetPassword
ParserEncrypt ==
    /\ pc = "loaded"
    /\ Xref' = ClearEncrypt(Xref, crypt)
    /\ pc' = "SetPassword"
    /\ UNCHANGED <<file, trailer, xref_offsets, cur, stack, todo, parses, repaired, ovars,
                   data, offset, frames, crypt, outcome, buffered, security_handler>>

OpenNext == ParserNext \/ ParserEncrypt

SpecOpen == OpenInit /\ [][OpenNext]_vars

(***************************************************************************)
(* Parser.ReadStream after the stream data is read (pdf/parser.go): the    *)
(* data is decrypted and the decode filters are applied.  data holds the    *)
(* stream data as read, crypt the decryptor, object the lists GetObject    *)
(* passes.  Bytes are kept by what was done to them: the decryptor that     *)
(* was applied and the filters that decoded them, in order.                 *)
(***************************************************************************)
MaxDecode == 3
DecodeFilters == {"ASCIIHexDecode", "FlateDecode", "Unsupported"}
NoParms == "absent"
StreamData(corrupt) == [corrupt |-> corrupt, decryptor |-> "none", decoded |-> <<>>]

\* decryptor.Decrypt(stream_data.Bytes())
Decrypt(decryptor, bytes) == [bytes EXCEPT !.decryptor = decryptor]

\* decode_parms_list.GetDictionary(i), the error left out: no parameters
\* where the list has no dictionary at i
DecodeParmsAt(decode_parms_list, i) ==
    IF i <= Len(decode_parms_list) THEN decode_parms_list[i] ELSE NoParms

\* DecodeStream(filter, data, decode_parms): an error for a filter that is
\* not supported and for compressed data that is corrupt, else the data
\* decoded by the filter with its parameters
DecodeFails(filter, bytes) ==
    filter = "Unsupported" \/ (filter = "FlateDecode" /\ bytes.corrupt)
DecodeStream(filter, bytes, decode_parms) ==
    [bytes EXCEPT !.decoded = Append(@, [filter |-> filter, parms |-> decode_parms])]

\* a loop that goes on with the next filter after a decode error
RECURSIVE DecodeLoopPastErrors(_, _, _, _)
DecodeLoopPastErrors(filter_list, decode_parms_list, i, stream_data_bytes) ==
    IF i > Len(filter_list) THEN stream_data_bytes
    ELSE DecodeLoopPastErrors(filter_list, decode_parms_list, i + 1,
             IF DecodeFails(filter_list[i], stream_data_bytes) THEN stream_data_bytes
             ELSE DecodeStream(filter_list[i], stream_data_bytes,
                               DecodeParmsAt(decode_parms_list, i)))

\* ReadStream: decode stream
RECURSIVE DecodeLoop(_, _, _, _)
DecodeLoop(filter_list, decode_parms_list, i, stream_data_bytes) ==
    IF i > Len(filter_list) THEN stream_data_bytes
    ELSE IF DecodeFails(filter_list[i], stream_data_bytes) THEN stream_data_bytes
    ELSE DecodeLoop(filter_list, decode_parms_list, i + 1,
                    DecodeStream(filter_list[i], stream_data_bytes,
                                 DecodeParmsAt(decode_parms_list, i)))

DecodeFilterLists == UNION {[1..k -> DecodeFilters] : k \in 0..MaxDecode}
DecodeParmsChoices == UNION {[1..k -> {NoParms, "Predictor"}] : k \in 0..MaxDecode}

DecodeInit ==
    /\ data \in {StreamData(c) : c \in BOOLEAN}
    /\ crypt \in {"Identity", "RC4"}
    /\ object \in [Filter : DecodeFilterLists, DecodeParms : DecodeParmsChoices]
    /\ outcome = StreamData(FALSE)
    /\ pc = "ReadStream"
    /\ offset = 0
    /\ frames = <<>>
    /\ buffered = 0
    /\ security_handler = defaultSecurityHandler
    /\ file = File(<<>>, NoOff)
    /\ Xref = EmptyXref
    /\ trailer = EmptyTrailer
    /\ xref_offsets = {}
    /\ cur = NoOff
    /\ stack = <<>>
    /\ todo = <<>>
    /\ parses = NoParses
    /\ repaired = FALSE
    /\ rcur = 0
    /\ rvisited = {}
    /\ rresult = Null

\* ReadStream from `decrypt stream` to its return
ReadStreamDecode ==
    /\ pc = "ReadStream"
    /\ outcome' = DecodeLoop(object.Filter, object.DecodeParms, 1, Decrypt(crypt, data))
    /\ pc' = "returned"
    /\ UNCHANGED <<data, crypt, object, offset, frames, buffered, security_handler, file, Xref,
                   trailer, xref_offsets, cur, stack, todo, parses, repaired, rcur, rvisited,
                   rresult>>

DecodeNext == ReadStreamDecode

SpecDecode == DecodeInit /\ [][DecodeNext]_vars

(***************************************************************************)
(* NewSecurityHandler: the key lengths handed to computeEncryptionKey       *)
(* (pdf/encryption.go), for an Encrypt dictionary that passes the checks    *)
(* of V and R and a password that passes the check of U.  crypt holds V,   *)
(* R, Length and the CFM and Length of one crypt filter of CF; outcome the  *)
(* key lengths used and whether a slice was out of range.                   *)
(***************************************************************************)
MaxKeyBytes == 17
\* the length of the MD5 digest hash.Sum(nil) returns
DigestSize == 16
\* encrypt.GetInt(key): the integer and whether the key holds one
GetInt(n) == [ok |-> TRUE, n |-> n]
NoInt == [ok |-> FALSE, n |-> 0]
LengthValues ==
    {NoInt, GetInt(0 - 8)} \cup {GetInt(8 * k + d) : k \in 0..MaxKeyBytes, d \in {0, 7}}
LengthInputs ==
    [V : {1, 2, 4}, R : {2, 3, 4}, Length : LengthValues, CFM : CryptFilterMethods,
     CFLength : LengthValues]

\* the division of Go, which truncates toward zero
GoDiv(a, b) == IF a >= 0 THEN a \div b ELSE 0 - ((0 - a) \div b)

\* NewSecurityHandler: get Length
HandlerLength(e) ==
    LET length == GoDiv(IF e.V = 1 THEN 40 ELSE IF e.Length.ok THEN e.Length.n ELSE 40, 8)
    IN IF length < 5 THEN 5 ELSE IF length > 16 THEN 16 ELSE length

\* NewSecurityHandler: get optional length of a crypt filter
CryptFilterLength(e) == IF e.CFLength.ok THEN e.CFLength.n ELSE HandlerLength(e)

\* the calls of computeEncryptionKey NewSecurityHandler makes, in order
KeyLengthsUsed(e) ==
    <<HandlerLength(e)>>
    \o (IF e.R = 4 /\ e.CFM \in {"V2", "AESV2"} THEN <<CryptFilterLength(e)>> ELSE <<>>)

\* computeEncryptionKey: hash.Sum(nil)[:key_length] is in range
SliceInRange(key_length) == 0 <= key_length /\ key_length <= DigestSize

\* the key lengths of the calls up to the first one that panics
RECURSIVE KeysComputed(_, _)
KeysComputed(lengths, done) ==
    IF lengths = <<>> THEN [lengths |-> done, panic |-> FALSE]
    ELSE IF ~SliceInRange(Head(lengths))
         THEN [lengths |-> Append(done, Head(lengths)), panic |-> TRUE]
    ELSE KeysComputed(Tail(lengths), Append(done, Head(lengths)))

KeyLengthInit ==
    /\ crypt \in LengthInputs
    /\ outcome = [lengths |-> <<>>, panic |-> FALSE]
    /\ pc = "SetPassword"
    /\ data = <<>>
    /\ offset = 0
    /\ frames = <<>>
    /\ buffered = 0
    /\ security_handler = defaultSecurityHandler
    /\ NoDocument

\* NewSecurityHandler(password, trailer), called by SetPassword; a panic ends
\* the process
NewSecurityHandlerKeys ==
    /\ pc = "SetPassword"
    /\ outcome' = KeysComputed(KeyLengthsUsed(crypt), <<>>)
    /\ pc' = IF outcome'.panic THEN "aborted" ELSE "loaded"
    /\ UNCHANGED <<data, offset, frames, crypt, buffered, security_handler, file, Xref, trailer,
                   xref_offsets, cur, stack, todo, parses, repaired, ovars>>

KeyLengthNext == NewSecurityHandlerKeys

SpecKeyLength == KeyLengthInit /\ [][KeyLengthNext]_vars

(***************************************************************************)
(* Properties                                                              *)
(***************************************************************************)

PdfPcs == {"Open", "loadXref", "IsXrefValid", "opened", "resolve"}
Ready == {"opened", "loaded"}
Resolving == {"resolve", "Resolve"}

\* a step that merges the entries and the trailer of an xref section
Merging == (pc = "loadXref" /\ ~repaired') \/ pc = "return"

\* C1: while xref sections are merged, an entry already in the xref map is
\* replaced only by an entry of strictly greater generation
C1_GenerationRule ==
    [][Merging =>
          \A k \in DOMAIN Xref \cap DOMAIN Xref' :
             Xref'[k] # Xref[k] => Xref'[k].gen > Xref[k].gen]_vars

\* C2: while the trailers of xref sections are merged, a key already present
\* in the document trailer is never overwritten
C2_TrailerFirstWins ==
    [][\A k \in TKeys : trailer[k] # NoVal => trailer'[k] = trailer[k]]_vars

\* the offsets not yet in the visited map
Unvisited == Cardinality(Offsets \ xref_offsets)
\* more than one LoadXref chain can cost: visits, returns and the two steps around them
ChainCost == 3 * EofOff + 3
\* a bound on the steps the load still takes
LoadMeasure ==
    CASE pc = "Open" -> EofOff + 3
      [] pc = "loadXref" -> Unvisited + 2
      [] pc = "IsXrefValid" -> 1
      [] pc = "Load" -> (EofOff + 2) * ChainCost
      [] pc = "next" -> Len(todo) * ChainCost + 2
      [] pc = "LoadXref" -> Len(todo) * ChainCost + 2 * Unvisited + Len(stack) + 4
      [] pc = "return" -> Len(todo) * ChainCost + 2 * Unvisited + Len(stack) + 3
      [] OTHER -> 0
Loading == pc \in {"Open", "loadXref", "IsXrefValid", "Load", "next", "LoadXref", "return"}

\* C3 as stated: no xref section offset is parsed more than once during one
\* open, over all start offsets that Load tries
C3_ParsedOnce == \A o \in Offsets : parses[o] <= 1

\* C3 amended: loading terminates for every graph of Prev offsets (every step
\* lowers a bound on the steps left); an offset is parsed only when it is not in
\* the visited map, which then receives it and only grows until Load moves to
\* its next start offset; Pdf.Open parses no offset more than once
C3_LoadTerminates ==
    /\ [][Loading => LoadMeasure' < LoadMeasure]_vars
    /\ [][\A o \in Offsets :
             parses'[o] # parses[o] =>
                 /\ o \notin xref_offsets
                 /\ xref_offsets' = xref_offsets \cup {o}
                 /\ parses'[o] = parses[o] + 1]_vars
    /\ [][pc # "next" => xref_offsets \subseteq xref_offsets']_vars
    /\ [](pc \in PdfPcs => C3_ParsedOnce)

\* C3 witness: Load has finished on two sections whose Prev offsets point to
\* each other, and both were parsed
C3_Witness ==
    /\ pc = "loaded"
    /\ ItemAt(file, 1).kind \in {"table", "xstream"} /\ ItemAt(file, 1).prev = 2
    /\ ItemAt(file, 2).kind \in {"table", "xstream"} /\ ItemAt(file, 2).prev = 1
    /\ parses[1] >= 1 /\ parses[2] >= 1

\* ReadObject of Pdf or GetObject of Parser, whichever holds the document
DocRead(n) ==
    IF pc \in PdfPcs THEN PdfReadObject(file, Xref, n) ELSE ParserReadObject(file, Xref, n)

\* C4: resolving a reference whose chain revisits a reference of the same call
\* chain terminates (the visited set grows with every dereference) and yields Null
C4_CycleYieldsNull ==
    /\ [][(pc \in Resolving /\ pc' = pc)
             => (rvisited \subseteq rvisited' /\ rvisited # rvisited')]_vars
    /\ [][(pc \in Resolving /\ rcur \in rvisited)
             => (pc' \in Ready /\ rresult' = Null)]_vars
    /\ [](pc \in Ready /\ rvisited # {} /\ (\A n \in rvisited : IsRef(DocRead(n).Value))
             => rresult = Null)

\* C4 witness: object 1 is `2 0 R`, object 2 is `1 0 R`, and the resolution
\* that visited both has returned Null
C4_Witness ==
    /\ pc \in Ready
    /\ rvisited = {1, 2}
    /\ DocRead(1).Value = RefVal(2)
    /\ DocRead(2).Value = RefVal(1)
    /\ rresult = Null

\* the offsets at which an object header starts, and the last one of object k
Headers(f) == {o \in Offsets : HeaderAt(f, o)}
LastHeader(f, k) ==
    CHOOSE o \in Headers(f) :
        f.at[o].n = k /\ \A o2 \in Headers(f) : f.at[o2].n = k => o2 <= o
\* x holds one InUse entry per object number with a header, and nothing else
IsRepairResult(f, x) ==
    /\ DOMAIN x = {f.at[o].n : o \in Headers(f)}
    /\ \A k \in DOMAIN x :
          x[k] = NewXrefEntry(LastHeader(f, k), f.at[LastHeader(f, k)].g, "inuse")

\* the three steps of Open, when they fail
StartXrefFails == pc = "Open" /\ file.startxref = NoOff
LoadFails ==
    /\ pc = "loadXref"
    /\ cur \notin xref_offsets
    /\ PdfReadSection(Xref, trailer, ItemAt(file, cur)).err
ValidationFails == pc = "IsXrefValid" /\ ~IsXrefValid(file, Xref)

\* C5: in Open a failure of startxref discovery, of xref chain loading or of
\* xref validation leads to full repair and to the opened document; the xref
\* map is then exactly the repair result, with no entry of the failed load
C5_FailureRepairs ==
    /\ [][(StartXrefFails \/ LoadFails \/ ValidationFails)
             => (pc' = "opened" /\ repaired' /\ IsRepairResult(file, Xref'))]_vars
    /\ [](repaired => (pc \in {"opened", "resolve"} /\ IsRepairResult(file, Xref)))

\* C5 witness: Open has repaired after a load that had parsed a section and
\* had put an entry into the map that the repair result does not hold
C5_Witness ==
    /\ pc = "opened"
    /\ repaired
    /\ \E o \in Offsets :
          /\ parses[o] > 0
          /\ \E i \in DOMAIN ItemAt(file, o).entries :
                ItemAt(file, o).entries[i].num \notin DOMAIN Xref

\* C7: after a successful open either a full repair was performed or every
\* InUse entry stored under n points at a header `n g obj` with the entry's
\* generation g
C7_EntriesMatchHeaders ==
    pc = "opened" =>
        \/ repaired
        \/ \A k \in DOMAIN Xref :
              Xref[k].type = "inuse" =>
                  /\ HeaderAt(file, Xref[k].off)
                  /\ ItemAt(file, Xref[k].off).n = k
                  /\ ItemAt(file, Xref[k].off).g = Xref[k].gen

AbsentOrFree(x, n) == n \notin DOMAIN x \/ x[n].type = "free"

\* C8: ReadObject(n) / GetObject(n) for n absent from the xref map or Free
\* returns number n, value Null and no stream, and a reference to such an
\* object resolves to Null
C8_AbsentOrFreeIsNull ==
    /\ [](pc \in Ready /\ AbsentOrFree(Xref, object.Number)
             => (object.Value = Null /\ object.Stream = "nil"))
    /\ [][(pc \in Ready /\ object' # object) => object'.Number \in XKeys]_vars
    /\ [][(pc \in Resolving /\ rcur \notin rvisited /\ AbsentOrFree(Xref, rcur))
             => (object'.Number = rcur /\ pc' \in Ready /\ rresult' = Null)]_vars

\* C8 witness: the object last read has a Free entry whose offset field is
\* the offset of an object header, and its value is Null
C8_Witness ==
    /\ pc \in Ready
    /\ object.Number \in DOMAIN Xref
    /\ Xref[object.Number].type = "free"
    /\ HeaderAt(file, Xref[object.Number].off)
    /\ object.Value = Null
    /\ rvisited = {object.Number}

\* C10: inside an array or dictionary every call of ReadObject by the element
\* loop consumes at least one input byte or stops the loop, also at a stray
\* `)` or a single `>`
C10_LoopConsumes ==
    [][(pc = "ReadObject" /\ frames # <<>>)
          => (offset' > offset \/ Len(frames') < Len(frames))]_vars

\* C9: GetObject always returns an indirect object and never aborts, whatever
\* the bytes of the object, ciphertext of any length included, so a failure on
\* one object never prevents a later read of another
C9_NeverAborts == pc # "aborted"

\* the object headers of the input in file order, as successive matches
RECURSIVE HeadersFrom(_, _)
HeadersFrom(d, o) ==
    LET m == FindReaderIndex(d, o)
    IN IF m = NoMatch THEN <<>> ELSE <<m>> \o HeadersFrom(d, m.end)
HeaderList(d) == HeadersFrom(d, 0)
LastOf(hs, k) ==
    hs[CHOOSE i \in DOMAIN hs : hs[i].n = k /\ \A j \in DOMAIN hs : hs[j].n = k => j <= i]

\* C6: after full repair the xref map holds exactly one InUse entry for each
\* object number N with an `N G obj` header in the file, its offset the start
\* of the last such header and its generation that header's G
C6_RepairFindsHeaders ==
    pc = "repaired" =>
        LET hs == HeaderList(data)
        IN /\ DOMAIN Xref = {hs[i].n : i \in DOMAIN hs}
           /\ \A k \in DOMAIN Xref :
                 Xref[k] = NewXrefEntry(LastOf(hs, k).start, LastOf(hs, k).g, "inuse")
           /\ (\A i, j \in DOMAIN hs : i # j => hs[i].n # hs[j].n)
                 => Cardinality(DOMAIN Xref) = Len(hs)

\* C6 witness: the repair of an input with a comment and three headers, two of
\* them of the same object number, has ended with two entries, the one of
\* object 1 at a header that is not the first of the input
C6_Witness ==
    /\ pc = "repaired"
    /\ Len(HeaderList(data)) = 3
    /\ Cardinality(DOMAIN Xref) = 2
    /\ \E i \in DOMAIN data : data[i] = "%"
    /\ 1 \in DOMAIN Xref /\ Xref[1].off > 0
    /\ 3 \notin DOMAIN Xref

\* the offset of the first `endstream` at or after offset o, Len(d) if none
RECURSIVE FirstEndMarker(_, _)
FirstEndMarker(d, o) ==
    IF o + Len(EndMarker) > Len(d) THEN Len(d)
    ELSE IF SubSeq(d, o + 1, o + Len(EndMarker)) = EndMarker THEN o
    ELSE FirstEndMarker(d, o + 1)
\* the offset after the line terminator that follows `stream`
DataStart(d) == SkipLine(d, Reader(0, Len(d))).r.off
HasEndMarker(d) == FirstEndMarker(d, DataStart(d)) < Len(d)

\* C11: for an object without filters and without encryption the stream
\* returned is the bytes between the line terminator after `stream` and the
\* first `endstream`, less one trailing terminator (\n, \r\n or \r)
C11_StreamIsPayload ==
    (pc = "returned" /\ HasEndMarker(data))
        => outcome = TruncateNewLine(SubSeq(data, DataStart(data) + 1,
                                            FirstEndMarker(data, DataStart(data))))

\* a byte that ends a token
EndsToken(b) == b \in whitespace \cup delimiters \cup {"EOF"}
\* the tokens `N G R` at offset p, N and G runs of digits; with strict, the
\* tokens are separated by whitespace or comments
IsNGR(d, p, strict) ==
    LET a == DigitsEnd(d, p)
        b == consumeWhitespace(d, a)
        c == DigitsEnd(d, b)
        e == consumeWhitespace(d, c)
    IN /\ a > p /\ b > a /\ c > b
       /\ strict => e > c
       /\ ByteAt(d, e) = "R"
       /\ EndsToken(ByteAt(d, e + 1))
StartsNumber(b) == IsDigit(b) \/ b \in {"+", "-", "."}

\* C12: at `N G R` with N and G non-negative integers ReadObject yields
\* Reference(N, G) and consumes the three tokens; in every other case that
\* starts with a number it yields the first number and leaves the cursor
\* right after it
C12_ReferenceOrNumber ==
    [][LET p == consumeWhitespace(data, offset)
           g == consumeWhitespace(data, DigitsEnd(data, p))
       IN (pc = "ReadObject" /\ StartsNumber(ByteAt(data, p)))
             => IF IsNGR(data, p, TRUE)
                THEN /\ outcome'.kind = "reference"
                     /\ outcome'.val.n = ReadDigits(data, p, 0).value
                     /\ outcome'.val.g = ReadDigits(data, g, 0).value
                     /\ offset' = consumeWhitespace(data, DigitsEnd(data, g)) + 1
                ELSE IsNGR(data, p, FALSE)
                        \/ (outcome'.kind = "number" /\ offset' = ReadNumber(data, offset).off)]_vars

\* the end of the value that starts at or after offset o
ValueEndAfter(ends, o) ==
    LET later == {i \in DOMAIN ends : ends[i] > o}
    IN IF later = {} THEN 0 - 1 ELSE ends[CHOOSE i \in later : \A j \in later : i <= j]
\* the offset of the next byte that is not whitespace
RECURSIVE SkipBlanks(_, _)
SkipBlanks(d, o) ==
    IF o < Len(d) /\ d[o + 1] \in whitespace THEN SkipBlanks(d, o + 1) ELSE o
\* a call of ReadObject by the caller returns, the call having started
\* before a value or after the last one
Returns == pc = "ReadObject" /\ pc' = "done" /\ cur < todo[Len(todo)]
ReturnsAtEnd == pc = "ReadObject" /\ pc' = "done" /\ cur >= todo[Len(todo)]

PassesU(password, e) == e.R \in 2..4 /\ ComputeU(e.R, password) = e.U

\* C14: with Encrypt in the trailer, open reaches the ready state, the
\* security handler installed, only if the password passes the U check; with
\* a password that does not pass it open returns the password error and
\* leaves the security handler as it was
C14_PasswordGuardsOpen ==
    /\ [](pc = "loaded" /\ crypt # NoEncrypt
            => (security_handler # defaultSecurityHandler /\ PassesU(data, crypt)))
    /\ [][(pc = "SetPassword" /\ crypt # NoEncrypt /\ ~PassesU(data, crypt))
            => (pc' = "failed" /\ outcome' = ErrorPassword
                  /\ security_handler' = security_handler)]_vars

\* the Encrypt dictionary is outside what is supported
Unsupported(e) ==
    \/ e.Filter \notin {"missing", "Standard"}
    \/ e.Filter = "Standard" /\ e.V \notin {1, 2, 4}
    \/ e.Filter = "Standard" /\ e.R # MissingR /\ (e.R < 2 \/ e.R > 4)

\* C15: an Encrypt dictionary with V outside {1, 2, 4}, R outside 2..4 or a
\* Filter other than Standard is rejected at open with an error that is not
\* the wrong-password error
C15_UnsupportedIsDistinct ==
    (pc \in {"loaded", "failed"} /\ crypt # NoEncrypt /\ Unsupported(crypt))
        => (pc = "failed" /\ outcome # ErrorPassword)

\* the filter of object n g as a function of the file key, n, g and the kind
\* of the filter c
ObjectFilter(c, n, g) ==
    [kind |-> c.kind,
     encryption_key |->
        [md5 |-> IF c.kind = "AESV2"
                 THEN <<c.encryption_key, n % 16777216, g % 65536, "sAlT">>
                 ELSE <<c.encryption_key, n % 16777216, g % 65536>>,
         len |-> IF c.encryption_key.len > 11 THEN 16 ELSE c.encryption_key.len + 5]]

\* C16: Init(n, g) returns a new filter and leaves the file key of the
\* filter it is called on unchanged; the key of the filter it returns
\* depends on the file key, n, g and the kind of filter only, so it is the
\* same in every order of derivation, and has min(len(file key) + 5, 16)
\* bytes; Decrypt of equal bytes by filters derived for the same n g gives
\* equal output
C16_KeyIsPureFunction ==
    /\ [][crypt' = crypt]_vars
    /\ [](outcome.filter # NoFilter
            => /\ outcome.filter = ObjectFilter(crypt, outcome.n, outcome.g)
               /\ outcome.filter.encryption_key.len
                     = (IF crypt.encryption_key.len + 5 < 16
                        THEN crypt.encryption_key.len + 5 ELSE 16))
    /\ [](outcome.out # NoOutput
            => outcome.out = [cipher |-> crypt.kind,
                              key |-> ObjectFilter(crypt, outcome.n, outcome.g).encryption_key,
                              input |-> data])

\* C16 witness: a decryptor derived for object 1 0 after others were derived
\* and used has decrypted, with a 10-byte key of a 5-byte file key
C16_Witness ==
    /\ outcome.n = 1 /\ outcome.g = 0
    /\ outcome.out # NoOutput
    /\ data = "c2"
    /\ crypt.encryption_key.len = 5
    /\ outcome.filter.encryption_key.len = 10

\* a ReadObject / GetObject call on the opened document, or a read made while
\* a reference is resolved
ReadsObject == (pc \in Ready /\ pc' = pc) \/ pc \in Resolving

RECURSIVE KeyPositions(_, _)
KeyPositions(toks, i) ==
    IF i > Len(toks) \/ toks[i].end THEN {}
    ELSE {i} \cup (IF toks[i].val.t # "name" THEN KeyPositions(toks, i + 1)
                   ELSE IF i + 1 > Len(toks) \/ toks[i + 1].end THEN {}
                   ELSE KeyPositions(toks, i + 2))
MalformedKeys(toks) == {i \in KeyPositions(toks, 1) : toks[i].val.t # "name"}
\* the name/value pairs that come after a malformed key
PairsAfterMalformed(toks) ==
    {i \in KeyPositions(toks, 1) :
        /\ toks[i].val.t = "name"
        /\ i + 1 <= Len(toks) /\ ~toks[i + 1].end
        /\ \E j \in MalformedKeys(toks) : j < i}
\* the pair at key position i is in the dictionary, unless a later pair of
\* the same key replaced it
HasPair(pairs, toks, i) ==
    /\ toks[i].val.bytes \in DOMAIN pairs
    /\ \/ pairs[toks[i].val.bytes] = toks[i + 1].val
       \/ \E k \in KeyPositions(toks, 1) : k > i /\ toks[k].val = toks[i].val

\* C18: a dictionary with a key position that holds no name is read to a
\* dictionary in which the name/value pairs after the malformed key are present
C18_PairsAfterMalformedKey ==
    (pc \in {"done", "returned"} /\ MalformedKeys(todo) # {})
        => /\ outcome.err = "nil"
           /\ outcome.val.t = "dictionary"
           /\ \A i \in PairsAfterMalformed(todo) : HasPair(outcome.val.pairs, todo, i)

\* the key positions of the token list that hold a name followed by the end
\* of the input or by the end-of-dictionary marker
CutKeys(toks) ==
    {i \in KeyPositions(toks, 1) :
        toks[i].val.t = "name" /\ (i + 1 > Len(toks) \/ toks[i + 1].end)}
\* the offset after token i and after the end marker that follows it
CutEnd(toks, i) ==
    2 + Len(DictBytes(SubSeq(toks, 1, i))) + (IF i + 1 <= Len(toks) THEN 2 ELSE 0)
\* Pdf.readDictionary returned, having met no malformed key on its way
PdfReachedKeys == pc = "returned" /\ MalformedKeys(todo) = {}

\* C19: a key whose value parse meets the end of the input or the
\* end-of-dictionary marker is inserted with the value Null, no error is
\* returned and the reading of the dictionary stops there
C19_CutKeyIsNull ==
    \A i \in CutKeys(todo) :
        (pc = "done" \/ PdfReachedKeys)
            => /\ outcome.err = "nil"
               /\ outcome.val.t = "dictionary"
               /\ todo[i].val.bytes \in DOMAIN outcome.val.pairs
               /\ outcome.val.pairs[todo[i].val.bytes] = Null
               /\ DOMAIN outcome.val.pairs
                     = {todo[k].val.bytes : k \in {j \in KeyPositions(todo, 1) :
                                                 todo[j].val.t = "name"}}
               /\ offset = CutEnd(todo, i)

\* C19 witness: `<</A 1/B` was read to the dictionary of A and 1, B and Null
C19_Witness ==
    /\ pc \in {"done", "returned"}
    /\ data = <<"<", "<", "/", "A", " ", "1", "/", "B">>
    /\ outcome.val = DictionaryValue(Put(Put(EmptyDictionary, <<"A">>, One), <<"B">>, Null))
    /\ offset = Len(data)

\* byte i of the input follows a backslash that is itself not escaped
RECURSIVE IsEscaped(_, _)
IsEscaped(d, i) == i > 2 /\ d[i - 1] = "\\" /\ ~IsEscaped(d, i - 1)
\* the parentheses left open after byte i, escaped ones not counted
OpenParens(d, i) ==
    Cardinality({j \in 1..i : d[j] = "(" /\ ~IsEscaped(d, j)})
        - Cardinality({j \in 1..i : d[j] = ")" /\ ~IsEscaped(d, j)})
\* the `)` that balances the opening `(`
Closes(d, i) == OpenParens(d, i) = 0 /\ \A j \in 1..(i - 1) : OpenParens(d, j) > 0
IsClosed(d) == \E i \in 1..Len(d) : Closes(d, i)
ClosingParen(d) == CHOOSE i \in 1..Len(d) : Closes(d, i)
\* the last byte of the string: the byte before the closing paren, or the
\* last byte of the input
LastStringByte(d) == IF IsClosed(d) THEN ClosingParen(d) - 1 ELSE Len(d)
\* the bytes 2..last of the string: a backslash is left out and the byte it
\* escapes is kept (`n` as the line feed); a backslash that the end of the
\* input follows is kept
RECURSIVE StringBytesFrom(_, _, _)
StringBytesFrom(d, i, last) ==
    IF i > last THEN <<>>
    ELSE IF IsEscaped(d, i)
    THEN <<(IF d[i] = "n" THEN "\n" ELSE d[i])>> \o StringBytesFrom(d, i + 1, last)
    ELSE IF d[i] = "\\" /\ i < Len(d) THEN StringBytesFrom(d, i + 1, last)
    ELSE <<d[i]>> \o StringBytesFrom(d, i + 1, last)

\* C20: a literal string ends at the `)` that balances its `(`; nested
\* parentheses are counted and kept, escaped ones kept and not counted, `%`
\* is kept as a byte, and the end of the input before the closing paren
\* returns the bytes read so far with no error
C20_StringEndsAtBalance ==
    pc = "done"
        => /\ outcome.err = "nil"
           /\ outcome.val = StringValue(StringBytesFrom(data, 2, LastStringByte(data)))
           /\ offset = IF IsClosed(data) THEN ClosingParen(data) ELSE Len(data)
           /\ data = <<"(">> => outcome.val = StringValue(<<>>)

\* C20 witness: `(\)(%))` was read to the bytes `)(%)`
C20_Witness ==
    /\ pc = "done"
    /\ data = <<"(", "\\", ")", "(", "%", ")", ")">>
    /\ outcome.val = StringValue(<<")", "(", "%", ")">>)
    /\ offset = 7

\* the subsections `first count` of an Index array, and the records that come
\* before subsection s in the stream
Subsections(index) == 1..(Len(index) \div 2)
First(index, s) == index[2 * s - 1]
Count(index, s) == index[2 * s]
RECURSIVE RecordsBefore(_, _)
RecordsBefore(index, s) ==
    IF s = 1 THEN 0 ELSE RecordsBefore(index, s - 1) + Count(index, s - 1)
\* record j of subsection s and the object number it defines
RecordOf(index, records, s, j) == records[RecordsBefore(index, s) + j + 1]
Defines(index, records) ==
    {<<s, j>> \in Subsections(index) \X (0..MaxRecords) :
        j < Count(index, s) /\ RecordsBefore(index, s) + j + 1 <= Len(records)}
\* the Index in force for a stream: its own, or 0 and Size
ClaimedIndex(t) == IF t.hasIndex THEN t.Index ELSE <<0, t.Size>>

\* C21: record j of the subsection `first count` defines object first + j,
\* with the default Index `0 Size` when the dictionary has none; the entry has
\* the type of field 1, the offset of field 2 and the generation of field 3
C21_RecordsDefineObjects ==
    (pc = "return" /\ (object.Value.hasIndex \/ object.Value.Size # NoSize))
        => LET index == ClaimedIndex(object.Value)
               defs == Defines(index, object.Stream)
           IN /\ DOMAIN Xref = {First(index, d[1]) + d[2] : d \in defs}
              /\ \A d \in defs :
                    LET rec == RecordOf(index, object.Stream, d[1], d[2])
                        e == Xref[First(index, d[1]) + d[2]]
                    IN /\ e.off = rec.field2
                       /\ e.gen = rec.field3
                       /\ e.type = (CASE rec.type = 0 -> "free"
                                      [] rec.type = 1 -> "inuse"
                                      [] OTHER -> "compressed")

\* C21 witness: a stream without Index and with Size 3 and three records was
\* loaded to the objects 0, 1 and 2
C21_Witness ==
    /\ pc = "return"
    /\ ~object.Value.hasIndex /\ object.Value.Size = 3
    /\ Len(object.Stream) = 3
    /\ DOMAIN Xref = {0, 1, 2}
    /\ object.Stream[3].type = 2 /\ Xref[2].type = "compressed"

\* C22: the strings of an object whose xref entry has IsEncrypted clear, and
\* the strings of a document that is not encrypted, are read with the
\* Identity decryptor; the string filter salted with (n, g) is used only
\* for an entry with IsEncrypted set
C22_StringsOfClearEntry ==
    (pc = "read" /\ (~Xref[1].enc \/ crypt = defaultFilters))
        => outcome.string_decryptor = IdentityDecryptor

\* C24: for an entry with IsEncrypted set the stream decryptor is made from
\* the crypt filter named by the first DecodeParms (Identity without a Name)
\* when the first Filter is Crypt and the name is defined, else from the
\* file filter of an embedded file, else from the stream filter; a leading
\* Crypt and its DecodeParms are taken off the lists passed on
C24_StreamDecryptorPriority ==
    (pc = "read" /\ crypt # defaultFilters /\ Xref[1].enc)
        => LET fl == object.Filter
               dp == object.DecodeParms
               leading == Len(fl) > 0 /\ fl[1] = "Crypt"
               name == IF Len(dp) > 0 /\ dp[1] # NoName THEN dp[1] ELSE "Identity"
               expected == IF leading /\ name \in DOMAIN crypt.crypt_filters
                           THEN crypt.crypt_filters[name]
                           ELSE IF Xref[1].emb THEN crypt.file_filter
                           ELSE crypt.stream_filter
           IN /\ outcome.stream_decryptor =
                    (IF expected = noFilter THEN IdentityDecryptor
                     ELSE [filter |-> expected, n |-> 1, g |-> Xref[1].gen])
              /\ outcome.filter_list = (IF leading THEN Tail(fl) ELSE fl)
              /\ outcome.decode_parms_list = (IF leading /\ Len(dp) > 0 THEN Tail(dp) ELSE dp)

\* C24 witness: an embedded file whose stream names the crypt filter StdCF,
\* which differs from the file filter, was read with StdCF and the Crypt
\* filter was taken off the list
C24_Witness ==
    /\ pc = "read"
    /\ Xref[1].enc /\ Xref[1].emb
    /\ object.Filter = <<"Crypt", "FlateDecode">>
    /\ object.DecodeParms = <<"StdCF", NoName>>
    /\ "StdCF" \in DOMAIN crypt.crypt_filters
    /\ crypt.crypt_filters["StdCF"] # crypt.file_filter
    /\ crypt.crypt_filters["StdCF"] # noFilter
    /\ outcome.stream_decryptor.filter = crypt.crypt_filters["StdCF"]
    /\ outcome.filter_list = <<"FlateDecode">>
    /\ outcome.decode_parms_list = <<NoName>>

\* the objects that were loaded as the carrier of an xref stream
Carriers ==
    {file.at[o].n : o \in {p \in Offsets : parses[p] > 0 /\ file.at[p].kind = "xstream"}}

\* C23: at the end of open the entry of every xref-stream carrier and the
\* entry of the object the Encrypt reference names have IsEncrypted false,
\* and every other entry has IsEncrypted true
C23_ClearedFlagsStay ==
    pc = "SetPassword"
        => \A k \in DOMAIN Xref :
              Xref[k].enc = ~(k \in Carriers \/ (IsRef(crypt) /\ crypt.n = k))

\* the index of the first \n or \r of d at or after index i, 0 if none
RECURSIVE FirstLineEnd(_, _)
FirstLineEnd(d, i) ==
    IF i > Len(d) THEN 0
    ELSE IF d[i] \in {"\n", "\r"} THEN i
    ELSE FirstLineEnd(d, i + 1)
\* the length of the line terminator that d has at index i
TerminatorAt(d, i) ==
    IF i > Len(d) THEN 0
    ELSE IF d[i] = "\n" THEN 1
    ELSE IF d[i] = "\r" THEN (IF i < Len(d) /\ d[i + 1] = "\n" THEN 2 ELSE 1)
    ELSE 0

RECURSIVE FirstFailure(_, _, _)
FirstFailure(filter_list, bytes, i) ==
    IF i > Len(filter_list) THEN i
    ELSE IF filter_list[i] = "Unsupported" \/ (filter_list[i] = "FlateDecode" /\ bytes.corrupt)
         THEN i
    ELSE FirstFailure(filter_list, bytes, i + 1)

FromSection(x, k, o) ==
    \E i \in 1..Len(ItemAt(file, o).entries) :
        LET e == ItemAt(file, o).entries[i]
        IN e.num = k /\ x[k] = NewXrefEntry(e.off, e.gen, e.type)
\* the section lists object k with a generation greater than g
ListsNewer(item, k, g) ==
    \E i \in 1..Len(item.entries) : item.entries[i].num = k /\ item.entries[i].gen > g

\* the step of Parser that merges the records of an xref stream with Prev
ParserMergesAfterPrev ==
    (pc = "return" /\ stack # <<>> /\ Head(stack).kind = "xstream"
        /\ Head(stack).prev # NoVal /\ Head(stack).prev \in Offsets)
        => /\ parses[Head(stack).prev] > 0
           /\ \A k \in DOMAIN Xref :
                 (FromSection(Xref, k, Head(stack).prev) /\ Xref'[k] # Xref[k])
                     => ListsNewer(Head(stack), k, Xref[k].gen)
\* the step of Pdf that merges the records of an xref stream with Prev
PdfMergesAfterPrev ==
    (pc = "loadXref" /\ ~Loaded(xref_offsets, cur) /\ ItemAt(file, cur).kind = "xstream"
        /\ ItemAt(file, cur).prev # NoVal /\ ItemAt(file, cur).prev \in Offsets
        /\ ~repaired' /\ Xref' # Xref)
        => parses[ItemAt(file, cur).prev] > 0

\* C27: the records of an xref stream with Prev are merged after the Prev
\* section was loaded, and they replace an entry that comes from Prev only
\* with a strictly greater generation
C27_PrevFirstThenNewerWins == [][ParserMergesAfterPrev /\ PdfMergesAfterPrev]_vars

\* C28: every key length handed to computeEncryptionKey, for the file key
\* and for each crypt filter of CF, lies between 5 and 16, and the slice of
\* the MD5 digest is in range
C28_KeyLengthsClamped ==
    pc # "SetPassword"
        => /\ ~outcome.panic
           /\ \A i \in 1..Len(outcome.lengths) :
                 5 <= outcome.lengths[i] /\ outcome.lengths[i] <= 16

\* the object numbers that have a header `N G obj` in the file
HeaderNumbers == {file.at[o].n : o \in {p \in Offsets : HeaderAt(file, p)}}

\* C29: after Parser.Load every object number that has a header in the file
\* has an xref entry that is InUse and whose offset holds a header of that
\* object number
C29_HeadersHaveInUseEntries ==
    pc = "loaded"
        => \A n \in HeaderNumbers :
              /\ Has(Xref, n)
              /\ Xref[n].type = "inuse"
              /\ HeaderAt(file, Xref[n].off)
              /\ ItemAt(file, Xref[n].off).n = n

\* the offsets of the sections that were parsed, those whose parse failed
\* part-way and those whose parse succeeded
ParsedSections(fails) ==
    {o \in Offsets : /\ parses[o] > 0
                     /\ file.at[o].kind \in {"table", "xstream"}
                     /\ (file.at[o].fail # "none") = fails}
\* the section at offset o lists the entry that the map holds for object k
ListsEntry(o, k) ==
    \E i \in 1..Len(file.at[o].entries) :
        LET e == file.at[o].entries[i]
        IN e.num = k /\ Xref[k].off = e.off /\ Xref[k].gen = e.gen /\ Xref[k].type = e.type
\* the scan for object headers yields the entry that the map holds for k
FoundByScan(k) ==
    /\ Has(FindObjects(file), k)
    /\ Xref[k].off = FindObjects(file)[k].off
    /\ Xref[k].gen = FindObjects(file)[k].gen
    /\ Xref[k].type = "inuse"

\* C30: a section whose parse failed part-way leaves no trace in the
\* document that open ends with: a trailer key has the value of such a
\* section only if a section that parsed has the same value for it, and an
\* entry of the map is one such a section lists only if a section that
\* parsed lists it too or the scan for object headers yields it
C30_FailedSectionLeavesNothing ==
    pc \in {"loaded", "opened"}
        => \A o \in ParsedSections(TRUE) :
              /\ \A key \in TKeys :
                    (SecTrailer(file.at[o])[key] # NoVal
                        /\ trailer[key] = SecTrailer(file.at[o])[key])
                    => \E p \in ParsedSections(FALSE) :
                          SecTrailer(file.at[p])[key] = trailer[key]
              /\ \A k \in DOMAIN Xref :
                    ListsEntry(o, k)
                    => \/ \E p \in ParsedSections(FALSE) : ListsEntry(p, k)
                       \/ FoundByScan(k)

====
